---- MODULE Spec2Model ----
(***************************************************************************)
(* A model of the DataStory analysis service (src/python-service).         *)
(*                                                                         *)
(* The service is a single-shot pipeline.  Its parts are modelled as       *)
(* separate state machines over disjoint groups of variables, each with    *)
(* its own specification:                                                  *)
(*   SpecSelect    VisualizationSelector: scoring and diverse selection    *)
(*   SpecInsights  InsightGenerator: extraction, ranking, top 5            *)
(*   SpecNarrative NarrativeGenerator.generate_narrative: retry loop       *)
(*   SpecPipeline  main.analyze_data: stages and job-status updates        *)
(*   SpecRuns      two runs of the visualization stage in two processes    *)
(*   SpecValidate  DataPreprocessor.preprocess / validate_data             *)
(*   SpecDetect    DataPreprocessor.detect_column_types                    *)
(*   SpecClean     DataPreprocessor.handle_missing_values                  *)
(*   SpecTrend     TrendDetector.detect_trends: direction of the fit       *)
(*   SpecCorr      CorrelationCalculator.calculate_correlations            *)
(*   SpecOutliers  OutlierDetector.detect_outliers: consensus              *)
(*   SpecFreq      FrequencyAnalyzer.analyze_frequencies                   *)
(*   SpecConvert   main.convert_numpy_types                                *)
(*   SpecResponse  the correlation matrix on its way into the response     *)
(*   SpecFunnel    VisualizationSelector._create_funnel_charts             *)
(*   SpecWaterfall VisualizationSelector._create_waterfall_charts          *)
(*   SpecScore     VisualizationSelector._score_and_rank_charts alone      *)
(*   SpecCombination VisualizationSelector._create_combination_charts      *)
(*   SpecParse     NarrativeGenerator._parse_response alone                *)
(*                                                                         *)
(* Numbers that are floats in the source are kept as scaled integers:      *)
(* chart base scores in tenths, chart-type weights in hundredths (so a     *)
(* composite chart score is in thousandths), insight significance in       *)
(* hundredths.                                                             *)
(***************************************************************************)
EXTENDS Integers, Sequences, FiniteSets, TLC

VARIABLES
    \* ---- VisualizationSelector
    max_charts,     \* self.max_charts
    analysisInsights, \* analysis['insights'] as read by _score_and_rank_charts
    charts,         \* the candidate list built by select_visualizations
    scored_charts,  \* the list returned by _score_and_rank_charts
    selected,       \* the list returned by _select_diverse_charts
    vpc,            \* position in select_visualizations
    \* ---- InsightGenerator
    analysis_results, \* the facets generate_insights reads
    insights,       \* the insights extracted, before ranking
    ranked_insights, \* the list generate_insights returns
    ipc,            \* position in generate_insights
    \* ---- NarrativeGenerator
    max_retries,    \* self.max_retries
    failFirst,      \* how many of the model's first replies are unusable
    attempt,        \* loop variable of generate_narrative
    calls,          \* calls of self.model.generate_content so far
    sleeps,         \* the delays passed to time.sleep so far, in order
    last_error,     \* last_error of generate_narrative (the kind of error)
    narratives,     \* the dictionary generate_narrative returns
    raised,         \* the exception generate_narrative raises, with the
                    \* number of attempts its message names
    npc,            \* position in generate_narrative
    \* ---- main.analyze_data
    mongo,          \* "up", or "down" when jobs_collection is None
    job,            \* the job document in the jobs collection
    status_calls,   \* the calls of update_job_status so far, in order
    last_write_ok,  \* whether the last call changed the job document
    gen_calls,      \* calls of narrative_gen.generate_narrative so far
    viz_calls,      \* calls of visualizer.select_visualizations so far
    failed_stage,   \* the stage whose except block ran, or "None"
    http_error,     \* status code of the HTTPException raised, 0 if none
    apc,            \* position in analyze_data
    \* ---- DataPreprocessor
    min_columns,    \* self.min_columns
    min_rows,       \* self.min_rows
    shape,          \* df.shape of the table read_file returns
    steps_run,      \* the steps of preprocess that have run, in order
    value_error,          \* the ValueError preprocess raises
    ppc,            \* position in preprocess
    \* ---- two worker processes running the visualization stage
    str_hash,       \* per process: hash() of each title string
    run_input,      \* the candidate charts both runs derive from the table
    run_out,        \* per process: the charts returned to the caller
    run_done,       \* per process: whether its run is over
    \* ---- DataPreprocessor.detect_column_types
    detect_df,    \* the columns of the table given to detect_column_types
    column_types,    \* the type detect_column_types gives each column
    dpc,   \* position in detect_column_types
    \* ---- DataPreprocessor.handle_missing_values
    clean_df,    \* df given to handle_missing_values, a list of columns of cells
    clean_types,    \* column_types given to handle_missing_values
    chained_inplace,    \* whether fillna(inplace=True) on df_clean[col] reaches df_clean
    df_after,    \* the table of the caller once the call is over
    df_clean,    \* the table handle_missing_values returns
    cpc,   \* position in handle_missing_values
    \* ---- TrendDetector.detect_trends
    trend_ticks,    \* the time column, in ticks since an origin, in row order
    tick_days,    \* the number of days in a tick
    trend_y,    \* the numeric column, in row order
    trend_list,    \* the list detect_trends returns
    tpc,   \* position in detect_trends
    \* ---- CorrelationCalculator.calculate_correlations
    corr_threshold,    \* self.threshold, in hundredths
    numeric_cols,    \* the number of numeric columns
    pair_stats,    \* per pair of columns, what calculate_correlations reads of it
    correlations,    \* the list calculate_correlations returns
    kpc,   \* position in calculate_correlations
    \* ---- OutlierDetector.detect_outliers
    flagged,    \* the rows of the analysed column each outlier method flags
    outlier_list,    \* the list detect_outliers returns
    opc,   \* position in detect_outliers
    \* ---- FrequencyAnalyzer.analyze_frequencies
    value_rows,    \* per distinct value of the column, in order of first appearance, the number of rows holding it
    null_rows,    \* the number of rows of the column without a value
    frequencies,    \* the list analyze_frequencies returns
    fpc,   \* position in analyze_frequencies
    \* ---- response conversion (main.py convert_numpy_types)
    np_obj,    \* the object handed to convert_numpy_types
    converted_obj,    \* the object it returns
    jpc,   \* position of the call: idle, called, returned
    \* ---- correlation matrix in the response (analyzer.py get_correlation_matrix, visualizer.py _create_heatmap_charts, main.py)
    matrix_cols,    \* number of numeric columns of the cleaned table
    constant_cols,    \* the numeric columns holding one single value
    pair_values,    \* per pair of numeric columns: jointly non-null rows and coefficients
    analysis_result,    \* analysis["correlation_matrix"]
    heatmap_charts,    \* the charts made by _create_heatmap_charts
    response,    \* statistics and charts of the AnalyzeResponse
    xpc,   \* position: idle, analyzing, visualizing, converting, returned
    \* ---- funnel charts (visualizer.py _create_funnel_charts)
    stage_keyword,    \* the categorical column name holds stage, step, phase, funnel or level
    stage_counts,    \* df[cat_col].value_counts().sort_index(): rows per stage in stage order
    funnel_charts,    \* the list _create_funnel_charts returns
    upc,   \* position of the call: idle, called, returned
    \* ---- waterfall charts (visualizer.py _create_waterfall_charts)
    signs,    \* (data > 0).any() and (data < 0).any() of the first numeric column
    has_category,    \* the table has a categorical column
    grouped,    \* df.groupby(cat_col)[num_col].sum().sort_values(ascending=False)
    waterfall_charts,    \* the list _create_waterfall_charts returns
    wpc,   \* position of the call: idle, called, returned
    \* ---- chart scoring alone (visualizer.py _score_and_rank_charts)
    score_input,    \* the charts handed to _score_and_rank_charts
    score_insights,    \* analysis["insights"] as that call reads it
    score_result,    \* the list that call returns
    gpc,   \* position of the call: idle, called, returned
    \* ---- combination charts (visualizer.py _create_combination_charts)
    has_datetime,    \* metadata["datetime_columns"] is not empty
    numeric_count,    \* len(metadata["numeric_columns"])
    trend_scales,    \* df[column].std() of the strong or moderate trends, in trend order
    combination_charts,    \* the list _create_combination_charts returns
    bpc,   \* position of the call: idle, called, returned
    \* ---- reply parsing alone (narrative_generator.py _parse_response)
    response_lines,    \* response_text.split("\\n") of the reply handed to _parse_response
    parsed_sections,    \* the dictionary _parse_response returns, each text as its list of lines
    parse_error,    \* the exception _parse_response raises
    qpc    \* position of the call: idle, called, returned, raised

vizVars == <<max_charts, analysisInsights, charts, scored_charts, selected, vpc>>
insVars == <<analysis_results, insights, ranked_insights, ipc>>
narrVars == <<max_retries, failFirst, attempt, calls, sleeps, last_error,
              narratives, raised, npc>>

pipeVars == <<mongo, job, status_calls, last_write_ok, gen_calls, viz_calls,
              failed_stage, http_error, apc>>

preVars == <<min_columns, min_rows, shape, steps_run, value_error, ppc>>
runVars == <<str_hash, run_input, run_out, run_done>>

detectVars == <<detect_df, column_types, dpc>>

cleanVars == <<clean_df, clean_types, chained_inplace, df_after, df_clean, cpc>>

trendVars == <<trend_ticks, tick_days, trend_y, trend_list, tpc>>

corrVars == <<corr_threshold, numeric_cols, pair_stats, correlations, kpc>>

outlierVars == <<flagged, outlier_list, opc>>

freqVars == <<value_rows, null_rows, frequencies, fpc>>

jsonVars == <<np_obj, converted_obj, jpc>>

respVars == <<matrix_cols, constant_cols, pair_values, analysis_result, heatmap_charts, response, xpc>>

funnelVars == <<stage_keyword, stage_counts, funnel_charts, upc>>

waterfallVars == <<signs, has_category, grouped, waterfall_charts, wpc>>

scoreVars == <<score_input, score_insights, score_result, gpc>>

comboVars == <<has_datetime, numeric_count, trend_scales, combination_charts, bpc>>

parseVars == <<response_lines, parsed_sections, parse_error, qpc>>

vars == <<vizVars, insVars, narrVars, pipeVars, preVars, runVars, detectVars, cleanVars, trendVars, corrVars, outlierVars, freqVars, jsonVars, respVars, funnelVars, waterfallVars, scoreVars, comboVars, parseVars>>

\* What each part of the service leaves alone
exceptViz == <<insVars, narrVars, pipeVars, preVars, runVars, detectVars, cleanVars, trendVars, corrVars, outlierVars, freqVars, jsonVars, respVars, funnelVars, waterfallVars, scoreVars, comboVars, parseVars>>
exceptIns == <<vizVars, narrVars, pipeVars, preVars, runVars, detectVars, cleanVars, trendVars, corrVars, outlierVars, freqVars, jsonVars, respVars, funnelVars, waterfallVars, scoreVars, comboVars, parseVars>>
exceptNarr == <<vizVars, insVars, pipeVars, preVars, runVars, detectVars, cleanVars, trendVars, corrVars, outlierVars, freqVars, jsonVars, respVars, funnelVars, waterfallVars, scoreVars, comboVars, parseVars>>
exceptPipe == <<vizVars, insVars, narrVars, preVars, runVars, detectVars, cleanVars, trendVars, corrVars, outlierVars, freqVars, jsonVars, respVars, funnelVars, waterfallVars, scoreVars, comboVars, parseVars>>
exceptPre == <<vizVars, insVars, narrVars, pipeVars, runVars, detectVars, cleanVars, trendVars, corrVars, outlierVars, freqVars, jsonVars, respVars, funnelVars, waterfallVars, scoreVars, comboVars, parseVars>>
exceptRun == <<vizVars, insVars, narrVars, pipeVars, preVars, detectVars, cleanVars, trendVars, corrVars, outlierVars, freqVars, jsonVars, respVars, funnelVars, waterfallVars, scoreVars, comboVars, parseVars>>
exceptDetect == <<vizVars, insVars, narrVars, pipeVars, preVars, runVars, cleanVars, trendVars, corrVars, outlierVars, freqVars, jsonVars, respVars, funnelVars, waterfallVars, scoreVars, comboVars, parseVars>>
exceptClean == <<vizVars, insVars, narrVars, pipeVars, preVars, runVars, detectVars, trendVars, corrVars, outlierVars, freqVars, jsonVars, respVars, funnelVars, waterfallVars, scoreVars, comboVars, parseVars>>
exceptTrend == <<vizVars, insVars, narrVars, pipeVars, preVars, runVars, detectVars, cleanVars, corrVars, outlierVars, freqVars, jsonVars, respVars, funnelVars, waterfallVars, scoreVars, comboVars, parseVars>>
exceptCorr == <<vizVars, insVars, narrVars, pipeVars, preVars, runVars, detectVars, cleanVars, trendVars, outlierVars, freqVars, jsonVars, respVars, funnelVars, waterfallVars, scoreVars, comboVars, parseVars>>
exceptOutliers == <<vizVars, insVars, narrVars, pipeVars, preVars, runVars, detectVars, cleanVars, trendVars, corrVars, freqVars, jsonVars, respVars, funnelVars, waterfallVars, scoreVars, comboVars, parseVars>>
exceptFreq == <<vizVars, insVars, narrVars, pipeVars, preVars, runVars, detectVars, cleanVars, trendVars, corrVars, outlierVars, jsonVars, respVars, funnelVars, waterfallVars, scoreVars, comboVars, parseVars>>
exceptConvert == <<vizVars, insVars, narrVars, pipeVars, preVars, runVars, detectVars, cleanVars, trendVars, corrVars, outlierVars, freqVars, respVars, funnelVars, waterfallVars, scoreVars, comboVars, parseVars>>
exceptResponse == <<vizVars, insVars, narrVars, pipeVars, preVars, runVars, detectVars, cleanVars, trendVars, corrVars, outlierVars, freqVars, jsonVars, funnelVars, waterfallVars, scoreVars, comboVars, parseVars>>
exceptFunnel == <<vizVars, insVars, narrVars, pipeVars, preVars, runVars, detectVars, cleanVars, trendVars, corrVars, outlierVars, freqVars, jsonVars, respVars, waterfallVars, scoreVars, comboVars, parseVars>>
exceptWaterfall == <<vizVars, insVars, narrVars, pipeVars, preVars, runVars, detectVars, cleanVars, trendVars, corrVars, outlierVars, freqVars, jsonVars, respVars, funnelVars, scoreVars, comboVars, parseVars>>
exceptScore == <<vizVars, insVars, narrVars, pipeVars, preVars, runVars, detectVars, cleanVars, trendVars, corrVars, outlierVars, freqVars, jsonVars, respVars, funnelVars, waterfallVars, comboVars, parseVars>>
exceptCombination == <<vizVars, insVars, narrVars, pipeVars, preVars, runVars, detectVars, cleanVars, trendVars, corrVars, outlierVars, freqVars, jsonVars, respVars, funnelVars, waterfallVars, scoreVars, parseVars>>
exceptParse == <<vizVars, insVars, narrVars, pipeVars, preVars, runVars, detectVars, cleanVars, trendVars, corrVars, outlierVars, freqVars, jsonVars, respVars, funnelVars, waterfallVars, scoreVars, comboVars>>

----------------------------------------------------------------------------
(* The state of each part while it is not running *)

\* The variables of the selector while another part of the service runs
IdleSelect ==
    /\ max_charts = 6
    /\ analysisInsights = <<>>
    /\ charts = <<>>
    /\ scored_charts = <<>>
    /\ selected = <<>>
    /\ vpc = "idle"

\* The variables of the insight generator while another part runs
IdleInsights ==
    /\ analysis_results = [trends |-> <<>>, correlations |-> <<>>,
                           outliers |-> <<>>, distributions |-> <<>>]
    /\ insights = <<>>
    /\ ranked_insights = <<>>
    /\ ipc = "idle"

\* The variables of the narrative generator while another part runs
IdleNarrative ==
    /\ max_retries = 3
    /\ failFirst = 0
    /\ attempt = 0
    /\ calls = 0
    /\ sleeps = <<>>
    /\ last_error = "None"
    /\ narratives = [sec \in {"summary", "keyFindings", "recommendations"} |-> <<>>]
    /\ raised = [error |-> "None", attempts |-> 0]
    /\ npc = "idle"

\* The job document before the request; progress -1 stands for no progress
NewJob ==
    [status |-> "pending", currentStage |-> "None", progress |-> -1,
     error |-> "None"]

\* The variables of analyze_data while no request is modelled
IdlePipeline ==
    /\ mongo = "down"
    /\ job = NewJob
    /\ status_calls = <<>>
    /\ last_write_ok = FALSE
    /\ gen_calls = 0
    /\ viz_calls = 0
    /\ failed_stage = "None"
    /\ http_error = 0
    /\ apc = "idle"

\* No error raised
NoError == [dimension |-> "None", required |-> 0, found |-> 0]

\* The variables of the preprocessor while another part runs
IdlePreprocess ==
    /\ min_columns = 2
    /\ min_rows = 10
    /\ shape = [rows |-> 0, cols |-> 0]
    /\ steps_run = <<>>
    /\ value_error = NoError
    /\ ppc = "idle"

\* The worker processes
Procs == {1, 2}

\* The variables of the two runs while they are not modelled
IdleRuns ==
    /\ str_hash = [p \in Procs |-> <<>>]
    /\ run_input = <<>>
    /\ run_out = [p \in Procs |-> <<>>]
    /\ run_done = [p \in Procs |-> FALSE]

\* The variables of type detection while another part runs
IdleDetect ==
    /\ detect_df = <<>>
    /\ column_types = <<>>
    /\ dpc = "idle"

\* The variables of missing-value handling while another part runs
IdleClean ==
    /\ clean_df = <<>>
    /\ clean_types = <<>>
    /\ chained_inplace = TRUE
    /\ df_after = <<>>
    /\ df_clean = <<>>
    /\ cpc = "idle"

\* The variables of trend detection while another part runs
IdleTrend ==
    /\ trend_ticks = <<>>
    /\ tick_days = 1
    /\ trend_y = <<>>
    /\ trend_list = <<>>
    /\ tpc = "idle"

\* The variables of the correlation calculator while another part runs
IdleCorr ==
    /\ corr_threshold = 50
    /\ numeric_cols = 0
    /\ pair_stats = <<>>
    /\ correlations = <<>>
    /\ kpc = "idle"

\* What the outlier methods flag in a column without outliers
NoFlags == [valid |-> 0, iqr |-> {}, zscore |-> {}, ran_forest |-> FALSE,
            forest |-> {}]

\* The variables of the outlier detector while another part runs
IdleOutliers ==
    /\ flagged = NoFlags
    /\ outlier_list = <<>>
    /\ opc = "idle"

\* The variables of the frequency analyzer while another part runs
IdleFreq ==
    /\ value_rows = <<>>
    /\ null_rows = 0
    /\ frequencies = <<>>
    /\ fpc = "idle"

\* A native None value, as convert_numpy_types sees it
NoneValue == [tag |-> "None", numpy |-> FALSE, val |-> 0, keys |-> <<>>, items |-> <<>>]

\* The variables of the response converter while another part runs
IdleConvert ==
    /\ np_obj = NoneValue
    /\ converted_obj = NoneValue
    /\ jpc = "idle"

\* The response before anything was put into it
NoResponse == [statistics |-> NoneValue, charts |-> NoneValue]

\* The variables of the response assembly while another part runs
IdleResponse ==
    /\ matrix_cols = 0
    /\ constant_cols = {}
    /\ pair_values = <<>>
    /\ analysis_result = NoneValue
    /\ heatmap_charts = <<>>
    /\ response = NoResponse
    /\ xpc = "idle"

\* The variables of the funnel chart builder while another part runs
IdleFunnel ==
    /\ stage_keyword = FALSE
    /\ stage_counts = <<>>
    /\ funnel_charts = <<>>
    /\ upc = "idle"

\* The variables of the waterfall chart builder while another part runs
IdleWaterfall ==
    /\ signs = [positive |-> FALSE, negative |-> FALSE]
    /\ has_category = FALSE
    /\ grouped = <<>>
    /\ waterfall_charts = <<>>
    /\ wpc = "idle"

\* The variables of the chart scoring while another part runs
IdleScore ==
    /\ score_input = <<>>
    /\ score_insights = <<>>
    /\ score_result = <<>>
    /\ gpc = "idle"

\* The variables of the combination chart builder while another part runs
IdleCombination ==
    /\ has_datetime = FALSE
    /\ numeric_count = 0
    /\ trend_scales = <<>>
    /\ combination_charts = <<>>
    /\ bpc = "idle"

\* The variables of the reply parser while another part runs
IdleParse ==
    /\ response_lines = <<>>
    /\ parsed_sections = [sec \in {"summary", "keyFindings", "recommendations"} |-> <<>>]
    /\ parse_error = "None"
    /\ qpc = "idle"

----------------------------------------------------------------------------
(* Generic helpers *)

Range(s) == {s[i] : i \in 1..Len(s)}

Min(a, b) == IF a <= b THEN a ELSE b

Max(a, b) == IF a >= b THEN a ELSE b

\* s[:n] of Python for n >= 0
Take(s, n) == SubSeq(s, 1, Min(n, Len(s)))

\* All sequences over S of length at most n
SeqsUpTo(S, n) == UNION {[1..k -> S] : k \in 0..n}

----------------------------------------------------------------------------
(* Bounds of the model *)

MaxCands == 3        \* longest candidate list explored
MaxChartsCfg == 3    \* largest configured max_charts explored
MaxFacet == 2        \* longest list explored of each analysis facet
MaxRetriesCfg == 5   \* largest configured GEMINI_MAX_RETRIES explored
MaxBlocks == 3       \* most header-and-body blocks in a model reply
MaxRows == 11        \* most rows, and largest min_rows, explored
MaxCols == 3         \* most columns, and largest min_columns, explored
MaxRunCands == 1     \* longest candidate list of the two-process runs

----------------------------------------------------------------------------
(* DataPreprocessor (services/preprocessor.py) *)

\* mutant of ValidateData: the row count is not checked
ValidateDataColumnsOnly(sh, minc, minr) ==
    IF sh.cols < minc
    THEN [dimension |-> "columns", required |-> minc, found |-> sh.cols]
    ELSE NoError

\* validate_data: the ValueError it raises, named by the dimension, the
\* required and the found count of its message, or NoError
ValidateData(sh, minc, minr) ==
    IF sh.cols < minc
    THEN [dimension |-> "columns", required |-> minc, found |-> sh.cols]
    ELSE IF sh.rows < minr
    THEN [dimension |-> "rows", required |-> minr, found |-> sh.rows]
    ELSE NoError

\* preprocess: read_file returns the table
ReadFile ==
    /\ ppc = "read_file"
    /\ steps_run' = Append(steps_run, "read_file")
    /\ ppc' = "validate_data"
    /\ UNCHANGED <<min_columns, min_rows, shape, value_error>>
    /\ UNCHANGED exceptPre

\* preprocess: read_file raises (download failed or no parser accepts the
\* content)
ReadFileRaises ==
    /\ ppc = "read_file"
    /\ steps_run' = Append(steps_run, "read_file")
    /\ value_error' = [dimension |-> "file", required |-> 0, found |-> 0]
    /\ ppc' = "raised"
    /\ UNCHANGED <<min_columns, min_rows, shape>>
    /\ UNCHANGED exceptPre

\* preprocess: validate_data returns
ValidateDataReturns ==
    /\ ppc = "validate_data"
    /\ ValidateData(shape, min_columns, min_rows) = NoError
    /\ steps_run' = Append(steps_run, "validate_data")
    /\ ppc' = "detect_column_types"
    /\ UNCHANGED <<min_columns, min_rows, shape, value_error>>
    /\ UNCHANGED exceptPre

\* preprocess: validate_data raises, and preprocess with it
ValidateDataRaises ==
    /\ ppc = "validate_data"
    /\ ValidateData(shape, min_columns, min_rows) # NoError
    /\ steps_run' = Append(steps_run, "validate_data")
    /\ value_error' = ValidateData(shape, min_columns, min_rows)
    /\ ppc' = "raised"
    /\ UNCHANGED <<min_columns, min_rows, shape>>
    /\ UNCHANGED exceptPre

\* preprocess: detect_column_types
DetectColumnTypes ==
    /\ ppc = "detect_column_types"
    /\ steps_run' = Append(steps_run, "detect_column_types")
    /\ ppc' = "handle_missing_values"
    /\ UNCHANGED <<min_columns, min_rows, shape, value_error>>
    /\ UNCHANGED exceptPre

\* preprocess: handle_missing_values fills cells of a copy; the shape stays
HandleMissingValues ==
    /\ ppc = "handle_missing_values"
    /\ steps_run' = Append(steps_run, "handle_missing_values")
    /\ ppc' = "convert_types"
    /\ UNCHANGED <<min_columns, min_rows, shape, value_error>>
    /\ UNCHANGED exceptPre

\* preprocess: convert_types, then the metadata is built and returned
ConvertTypes ==
    /\ ppc = "convert_types"
    /\ steps_run' = Append(steps_run, "convert_types")
    /\ ppc' = "returned"
    /\ UNCHANGED <<min_columns, min_rows, shape, value_error>>
    /\ UNCHANGED exceptPre

InitValidate ==
    /\ min_columns \in 0..MaxCols
    /\ min_rows \in 0..MaxRows
    /\ shape \in [rows : 0..MaxRows, cols : 0..MaxCols]
    /\ steps_run = <<>>
    /\ value_error = NoError
    /\ ppc = "read_file"
    /\ IdleSelect
    /\ IdleInsights
    /\ IdleNarrative
    /\ IdlePipeline
    /\ IdleRuns
    /\ IdleDetect
    /\ IdleClean
    /\ IdleTrend
    /\ IdleCorr
    /\ IdleOutliers
    /\ IdleFreq
    /\ IdleConvert
    /\ IdleResponse
    /\ IdleFunnel
    /\ IdleWaterfall
    /\ IdleScore
    /\ IdleCombination
    /\ IdleParse

NextValidate ==
    \/ ReadFile \/ ReadFileRaises
    \/ ValidateDataReturns \/ ValidateDataRaises
    \/ DetectColumnTypes \/ HandleMissingValues \/ ConvertTypes

SpecValidate == InitValidate /\ [][NextValidate]_vars

----------------------------------------------------------------------------
(* main.py: update_job_status and analyze_data *)

\* An update_job_status call; stage "None", progress -1 and error "None"
\* stand for the arguments left at their default None
StatusCall(status, stage, progress, error) ==
    [status |-> status, stage |-> stage, progress |-> progress, error |-> error]

\* (variant) a $set that writes every argument, given or not
SetFieldsOverwriting(doc, c) ==
    [status |-> c.status, currentStage |-> c.stage, progress |-> c.progress,
     error |-> c.error]

\* The $set of update_job_status applied to the job document
SetFields(doc, c) ==
    [status |-> c.status,
     currentStage |-> IF c.stage # "None" THEN c.stage ELSE doc.currentStage,
     progress |-> IF c.progress # -1 THEN c.progress ELSE doc.progress,
     error |-> IF c.error # "None" THEN c.error ELSE doc.error]

\* update_job_status: nothing is written without a collection, and an
\* exception of update_one is logged and swallowed
UpdateJobStatus(c) ==
    /\ status_calls' = Append(status_calls, c)
    /\ IF mongo = "down"
       THEN /\ job' = job
            /\ last_write_ok' = FALSE
       ELSE \E ok \in BOOLEAN :
               /\ job' = IF ok THEN SetFields(job, c) ELSE job
               /\ last_write_ok' = ok

\* Stage 1: update_job_status(job_id, 'processing', 'analyzing', 10)
BeginPreprocessing ==
    /\ apc = "stage1"
    /\ UpdateJobStatus(StatusCall("processing", "analyzing", 10, "None"))
    /\ apc' = "preprocess"
    /\ UNCHANGED <<mongo, gen_calls, viz_calls, failed_stage, http_error>>
    /\ UNCHANGED exceptPipe

\* preprocessor.preprocess returns
PreprocessReturns ==
    /\ apc = "preprocess"
    /\ apc' = "stage2"
    /\ UNCHANGED <<mongo, job, status_calls, last_write_ok, gen_calls,
                   viz_calls, failed_stage, http_error>>
    /\ UNCHANGED exceptPipe

\* preprocessor.preprocess raises: the except block of stage 1 runs
PreprocessRaises ==
    /\ apc = "preprocess"
    /\ failed_stage' = "PREPROCESSING_ERROR"
    /\ apc' = "report_failure"
    /\ UNCHANGED <<mongo, job, status_calls, last_write_ok, gen_calls,
                   viz_calls, http_error>>
    /\ UNCHANGED exceptPipe

\* Stage 2: update_job_status(job_id, 'processing', 'analyzing', 30)
BeginAnalysis ==
    /\ apc = "stage2"
    /\ UpdateJobStatus(StatusCall("processing", "analyzing", 30, "None"))
    /\ apc' = "analyze"
    /\ UNCHANGED <<mongo, gen_calls, viz_calls, failed_stage, http_error>>
    /\ UNCHANGED exceptPipe

\* analyzer.analyze returns
AnalyzeReturns ==
    /\ apc = "analyze"
    /\ apc' = "stage3"
    /\ UNCHANGED <<mongo, job, status_calls, last_write_ok, gen_calls,
                   viz_calls, failed_stage, http_error>>
    /\ UNCHANGED exceptPipe

\* analyzer.analyze raises: the except block of stage 2 runs
AnalyzeRaises ==
    /\ apc = "analyze"
    /\ failed_stage' = "ANALYSIS_ERROR"
    /\ apc' = "report_failure"
    /\ UNCHANGED <<mongo, job, status_calls, last_write_ok, gen_calls,
                   viz_calls, http_error>>
    /\ UNCHANGED exceptPipe

\* Stage 3: update_job_status(job_id, 'processing',
\* 'generating_narrative', 50)
BeginNarrative ==
    /\ apc = "stage3"
    /\ UpdateJobStatus(StatusCall("processing", "generating_narrative", 50,
                                  "None"))
    /\ apc' = "narrative_init"
    /\ UNCHANGED <<mongo, gen_calls, viz_calls, failed_stage, http_error>>
    /\ UNCHANGED exceptPipe

\* NarrativeGenerator() returns
NarrativeGeneratorCreated ==
    /\ apc = "narrative_init"
    /\ apc' = "narrative"
    /\ UNCHANGED <<mongo, job, status_calls, last_write_ok, gen_calls,
                   viz_calls, failed_stage, http_error>>
    /\ UNCHANGED exceptPipe

\* NarrativeGenerator() raises ValueError (no API key): the except block of
\* stage 3 runs before generate_narrative is called
NarrativeGeneratorRejected ==
    /\ apc = "narrative_init"
    /\ failed_stage' = "NARRATIVE_GENERATION_ERROR"
    /\ apc' = "report_failure"
    /\ UNCHANGED <<mongo, job, status_calls, last_write_ok, gen_calls,
                   viz_calls, http_error>>
    /\ UNCHANGED exceptPipe

\* narrative_gen.generate_narrative returns
NarrativeReturns ==
    /\ apc = "narrative"
    /\ gen_calls' = gen_calls + 1
    /\ apc' = "stage4"
    /\ UNCHANGED <<mongo, job, status_calls, last_write_ok, viz_calls,
                   failed_stage, http_error>>
    /\ UNCHANGED exceptPipe

\* mutant of AfterNarrativeError: the pipeline calls generate_narrative again
AfterNarrativeErrorRetry == "narrative"

\* Where analyze_data goes when generate_narrative raises: the except block
\* of stage 3, which reports the failure and raises
AfterNarrativeError == "report_failure"

\* narrative_gen.generate_narrative raises
NarrativeRaises ==
    /\ apc = "narrative"
    /\ gen_calls < 2
    /\ gen_calls' = gen_calls + 1
    /\ failed_stage' = "NARRATIVE_GENERATION_ERROR"
    /\ apc' = AfterNarrativeError
    /\ UNCHANGED <<mongo, job, status_calls, last_write_ok, viz_calls,
                   http_error>>
    /\ UNCHANGED exceptPipe

\* Stage 4: update_job_status(job_id, 'processing',
\* 'creating_visualizations', 80)
BeginVisualization ==
    /\ apc = "stage4"
    /\ UpdateJobStatus(StatusCall("processing", "creating_visualizations", 80,
                                  "None"))
    /\ apc' = "visualize"
    /\ UNCHANGED <<mongo, gen_calls, viz_calls, failed_stage, http_error>>
    /\ UNCHANGED exceptPipe

\* select_visualizations and generate_chart_config return
VisualizationReturns ==
    /\ apc = "visualize"
    /\ viz_calls' = viz_calls + 1
    /\ apc' = "stage5"
    /\ UNCHANGED <<mongo, job, status_calls, last_write_ok, gen_calls,
                   failed_stage, http_error>>
    /\ UNCHANGED exceptPipe

\* select_visualizations or generate_chart_config raises
VisualizationRaises ==
    /\ apc = "visualize"
    /\ viz_calls' = viz_calls + 1
    /\ failed_stage' = "VISUALIZATION_ERROR"
    /\ apc' = "report_failure"
    /\ UNCHANGED <<mongo, job, status_calls, last_write_ok, gen_calls,
                   http_error>>
    /\ UNCHANGED exceptPipe

\* Stage 5: update_job_status(job_id, 'completed', progress=100)
MarkCompleted ==
    /\ apc = "stage5"
    /\ UpdateJobStatus(StatusCall("completed", "None", 100, "None"))
    /\ apc' = "respond"
    /\ UNCHANGED <<mongo, gen_calls, viz_calls, failed_stage, http_error>>
    /\ UNCHANGED exceptPipe

\* convert_numpy_types and AnalyzeResponse return: the response is sent
Respond ==
    /\ apc = "respond"
    /\ apc' = "returned"
    /\ UNCHANGED <<mongo, job, status_calls, last_write_ok, gen_calls,
                   viz_calls, failed_stage, http_error>>
    /\ UNCHANGED exceptPipe

\* convert_numpy_types or AnalyzeResponse raises: the outer
\* "except Exception" block runs
RespondRaises ==
    /\ apc = "respond"
    /\ failed_stage' = "INTERNAL_ERROR"
    /\ apc' = "report_failure"
    /\ UNCHANGED <<mongo, job, status_calls, last_write_ok, gen_calls,
                   viz_calls, http_error>>
    /\ UNCHANGED exceptPipe

\* status_code of the HTTPException an except block raises
StatusCodeOf(code) == IF code = "PREPROCESSING_ERROR" THEN 400 ELSE 500

\* An except block: update_job_status(job_id, 'failed', error=error_detail)
\* and raise HTTPException, which the outer handler re-raises
ReportFailure ==
    /\ apc = "report_failure"
    /\ UpdateJobStatus(StatusCall("failed", "None", -1, failed_stage))
    /\ http_error' = StatusCodeOf(failed_stage)
    /\ apc' = "raised"
    /\ UNCHANGED <<mongo, gen_calls, viz_calls, failed_stage>>
    /\ UNCHANGED exceptPipe

InitPipeline ==
    /\ mongo \in {"up", "down"}
    /\ job = NewJob
    /\ status_calls = <<>>
    /\ last_write_ok = FALSE
    /\ gen_calls = 0
    /\ viz_calls = 0
    /\ failed_stage = "None"
    /\ http_error = 0
    /\ apc = "stage1"
    /\ IdleSelect
    /\ IdleInsights
    /\ IdleNarrative
    /\ IdlePreprocess
    /\ IdleRuns
    /\ IdleDetect
    /\ IdleClean
    /\ IdleTrend
    /\ IdleCorr
    /\ IdleOutliers
    /\ IdleFreq
    /\ IdleConvert
    /\ IdleResponse
    /\ IdleFunnel
    /\ IdleWaterfall
    /\ IdleScore
    /\ IdleCombination
    /\ IdleParse

NextPipeline ==
    \/ BeginPreprocessing \/ PreprocessReturns \/ PreprocessRaises
    \/ BeginAnalysis \/ AnalyzeReturns \/ AnalyzeRaises
    \/ BeginNarrative \/ NarrativeGeneratorCreated
    \/ NarrativeGeneratorRejected \/ NarrativeReturns \/ NarrativeRaises
    \/ BeginVisualization \/ VisualizationReturns \/ VisualizationRaises
    \/ MarkCompleted \/ Respond \/ RespondRaises
    \/ ReportFailure

SpecPipeline == InitPipeline /\ [][NextPipeline]_vars

----------------------------------------------------------------------------
(* NarrativeGenerator (services/narrative_generator.py) *)

SectionNames == {"summary", "keyFindings", "recommendations"}

\* A line of the reply text.  markers: the sections one of whose header
\* markers occurs in the lower-cased line; len: the length of the stripped
\* line (0 for a blank line).  Lines carry no leading or trailing blanks.
HeaderLine(sec) == [markers |-> {sec}, len |-> 12]
TextLine(n) == [markers |-> {}, len |-> n]
BlankLine == [markers |-> {}, len |-> 0]

\* The header the if/elif chain of _parse_response takes the line for
HeaderOf(line) ==
    IF "summary" \in line.markers THEN "summary"
    ELSE IF "keyFindings" \in line.markers THEN "keyFindings"
    ELSE IF "recommendations" \in line.markers THEN "recommendations"
    ELSE "None"

RECURSIVE JoinedLen(_)
\* len('\n'.join(current_content).strip())
JoinedLen(content) ==
    IF content = <<>> THEN 0
    ELSE Head(content).len
         + (IF Len(content) > 1 THEN 1 + JoinedLen(Tail(content)) ELSE 0)

NoSections == [sec \in SectionNames |-> <<>>]

\* "if current_section and current_content: sections[current_section] = ..."
Flush(sections, cur, content) ==
    IF cur # "None" /\ content # <<>>
    THEN [sections EXCEPT ![cur] = content]
    ELSE sections

RECURSIVE ParseLines(_, _, _, _)
\* The loop of _parse_response and the "add last section" after it; a
\* section's text is kept as the list of its content lines
ParseLines(lines, sections, cur, content) ==
    IF lines = <<>> THEN Flush(sections, cur, content)
    ELSE LET line == Head(lines) IN
         IF HeaderOf(line) # "None"
         THEN ParseLines(Tail(lines), Flush(sections, cur, content),
                         HeaderOf(line), <<>>)
         ELSE IF cur # "None" /\ line.len > 0
         THEN ParseLines(Tail(lines), sections, cur, Append(content, line))
         ELSE ParseLines(Tail(lines), sections, cur, content)

\* sections of _parse_response before the validation of presence
ParseSections(lines) == ParseLines(lines, NoSections, "None", <<>>)

\* missing_sections of _parse_response
MissingSections(sections) ==
    {sec \in SectionNames : JoinedLen(sections[sec]) = 0}

\* mutant of TooShort: a section of 29 characters passes
TooShortBelow29(sections) ==
    \E sec \in SectionNames : JoinedLen(sections[sec]) < 29

\* The three length tests of _validate_narratives
TooShort(sections) ==
    \E sec \in SectionNames : JoinedLen(sections[sec]) < 30

\* "not response_text or not response_text.strip()"
EmptyText(lines) == \A i \in 1..Len(lines) : lines[i].len = 0

\* The try block of generate_narrative on one reply of the model: "ok" or
\* the kind of the exception it raises
TryError(reply) ==
    CASE reply.kind = "api_error" -> "api_error"
      [] reply.kind = "falsy" -> "empty_response"
      [] reply.kind = "blocked" -> "prompt_blocked"
      [] reply.kind = "no_candidates" -> "no_candidates"
      [] reply.kind = "safety" -> "safety"
      [] reply.kind = "no_content" -> "no_content"
      [] OTHER ->
            IF EmptyText(reply.lines) THEN "empty_text"
            ELSE IF MissingSections(ParseSections(reply.lines)) # {}
                 THEN "missing_section"
            ELSE IF TooShort(ParseSections(reply.lines)) THEN "too_short"
            ELSE "ok"

\* The bodies a block of the reply text may have: lists of line lengths
BodyPool ==
    { <<>>, <<TextLine(29)>>, <<TextLine(30)>>,
      <<TextLine(14), BlankLine, TextLine(15)>>,
      <<TextLine(14), TextLine(14)>> }

RECURSIVE Flatten(_)
Flatten(blocks) ==
    IF blocks = <<>> THEN <<>>
    ELSE <<HeaderLine(Head(blocks).header)>> \o Head(blocks).body
         \o Flatten(Tail(blocks))

\* Reply texts: up to MaxBlocks blocks, each a header line and a body
TextSpace ==
    {Flatten(b) : b \in SeqsUpTo([header : SectionNames, body : BodyPool],
                                 MaxBlocks)}

\* What self.model.generate_content may give: an exception, a falsy
\* response, a blocked prompt, no candidates, a SAFETY finish reason, a
\* response whose text accessor and parts both fail, a text, or a text
\* assembled from the candidate's parts
ReplySpace ==
    {[kind |-> k, lines |-> <<>>] :
        k \in {"api_error", "falsy", "blocked", "no_candidates", "safety",
               "no_content"}}
    \cup {[kind |-> "text", lines |-> l] : l \in TextSpace}
    \cup {[kind |-> "parts", lines |-> l] :
            l \in {<<>>, <<TextLine(30)>>,
                   Flatten(<<[header |-> "summary", body |-> <<TextLine(30)>>],
                             [header |-> "keyFindings", body |-> <<TextLine(30)>>],
                             [header |-> "recommendations",
                              body |-> <<TextLine(30)>>]>>)}}

\* What the try block makes of a reply: the error it raises, or "ok" and the
\* sections it returns
Outcome(reply) ==
    [error |-> TryError(reply),
     narratives |-> IF TryError(reply) = "ok"
                    THEN ParseSections(reply.lines) ELSE NoSections]

\* The outcomes of all replies of the model
ReplyOutcomes == {Outcome(r) : r \in ReplySpace}

\* The outcomes of the replies the model can give to its n-th call: its first
\* failFirst replies are unusable, the next one is usable
OutcomesTo(n) ==
    {o \in ReplyOutcomes : (o.error # "ok") <=> (n <= failFirst)}

\* retry_delays of generate_narrative
retry_delays == <<1, 2, 4>>

\* "for attempt in range(self.max_retries)": the loop goes on
LoopContinues == attempt < max_retries

\* One iteration of the loop whose try block runs to "return narratives"
NarrAttemptSucceeds ==
    /\ npc = "loop"
    /\ LoopContinues
    /\ \E o \in OutcomesTo(calls + 1) :
          /\ o.error = "ok"
          /\ narratives' = o.narratives
    /\ calls' = calls + 1
    /\ npc' = "returned"
    /\ UNCHANGED <<max_retries, failFirst, attempt, sleeps, last_error, raised>>
    /\ UNCHANGED exceptNarr

\* One iteration of the loop whose try block raises: the except block
\* records the error and sleeps before the next attempt; indexing
\* retry_delays beyond its end raises IndexError out of the handler
NarrAttemptFails ==
    /\ npc = "loop"
    /\ LoopContinues
    /\ \E o \in OutcomesTo(calls + 1) :
          /\ o.error # "ok"
          /\ last_error' = o.error
    /\ calls' = calls + 1
    /\ IF attempt < max_retries - 1
       THEN IF attempt + 1 <= Len(retry_delays)
            THEN /\ sleeps' = Append(sleeps, retry_delays[attempt + 1])
                 /\ attempt' = attempt + 1
                 /\ UNCHANGED <<raised, npc>>
            ELSE /\ raised' = [error |-> "IndexError", attempts |-> 0]
                 /\ npc' = "raised"
                 /\ UNCHANGED <<sleeps, attempt>>
       ELSE /\ attempt' = attempt + 1
            /\ UNCHANGED <<sleeps, raised, npc>>
    /\ UNCHANGED <<max_retries, failFirst, narratives>>
    /\ UNCHANGED exceptNarr

\* The loop is over: "Narrative generation failed after {max_retries}
\* attempts" is raised; raised keeps the number the message names
NarrExhausted ==
    /\ npc = "loop"
    /\ ~LoopContinues
    /\ raised' = [error |-> "failed_after_attempts", attempts |-> max_retries]
    /\ npc' = "raised"
    /\ UNCHANGED <<max_retries, failFirst, attempt, calls, sleeps, last_error,
                   narratives>>
    /\ UNCHANGED exceptNarr

InitNarrative ==
    /\ max_retries \in 1..MaxRetriesCfg
    /\ failFirst \in 0..MaxRetriesCfg
    /\ attempt = 0
    /\ calls = 0
    /\ sleeps = <<>>
    /\ last_error = "None"
    /\ narratives = [sec \in {"summary", "keyFindings", "recommendations"} |-> <<>>]
    /\ raised = [error |-> "None", attempts |-> 0]
    /\ npc = "loop"
    /\ IdleSelect
    /\ IdleInsights
    /\ IdlePipeline
    /\ IdlePreprocess
    /\ IdleRuns
    /\ IdleDetect
    /\ IdleClean
    /\ IdleTrend
    /\ IdleCorr
    /\ IdleOutliers
    /\ IdleFreq
    /\ IdleConvert
    /\ IdleResponse
    /\ IdleFunnel
    /\ IdleWaterfall
    /\ IdleScore
    /\ IdleCombination
    /\ IdleParse

NextNarrative == NarrAttemptSucceeds \/ NarrAttemptFails \/ NarrExhausted

SpecNarrative == InitNarrative /\ [][NextNarrative]_vars

----------------------------------------------------------------------------
(* InsightGenerator (services/analyzer.py) *)

\* Trend records: r_squared in hundredths.  seasonal and change_points only
\* extend the description text and are left out.
TrendPool ==
    {[column |-> "sales", strength |-> "strong", r_squared |-> 90,
      direction |-> "increasing"],
     [column |-> "profit", strength |-> "strong", r_squared |-> 75,
      direction |-> "decreasing"],
     [column |-> "units", strength |-> "strong", r_squared |-> 80,
      direction |-> "stable"]}

\* Correlation records: coefficient in hundredths
CorrelationPool ==
    {[column1 |-> "sales", column2 |-> "cost", coefficient |-> -78,
      direction |-> "negative"],
     [column1 |-> "units", column2 |-> "cost", coefficient |-> 60,
      direction |-> "positive"]}

\* Outlier records: consensus count and the IQR method's percentage
OutlierPool ==
    {[column |-> "profit", consensus_count |-> 6, iqr_percentage |-> 12],
     [column |-> "units", consensus_count |-> 2, iqr_percentage |-> 5]}

\* Distribution records: skewness in hundredths; normality is the list of
\* is_normal flags of the tests that ran, or "absent" without the key
DistributionPool ==
    {[column |-> "sales", skewness |-> 180, normality |-> <<FALSE, FALSE>>],
     [column |-> "profit", skewness |-> -360, normality |-> <<FALSE, TRUE>>],
     [column |-> "cost", skewness |-> 30, normality |-> "absent"]}

Abs(x) == IF x < 0 THEN -x ELSE x

\* One insight; significance in hundredths, score not yet set
Insight(type, title, cols, significance, impact) ==
    [type |-> type, title |-> title, cols |-> cols,
     significance |-> significance, impact |-> impact, score |-> 0]

RECURSIVE ExtractTrendInsights(_)
\* _extract_trend_insights
ExtractTrendInsights(trends) ==
    IF trends = <<>> THEN <<>>
    ELSE LET t == Head(trends)
             rest == ExtractTrendInsights(Tail(trends))
         IN IF /\ t.strength = "strong"
               /\ t.r_squared > 70
               /\ t.direction \in {"increasing", "decreasing"}
            THEN <<Insight("trend", t.direction, {t.column}, t.r_squared,
                           IF t.r_squared > 85 THEN "high" ELSE "medium")>>
                 \o rest
            ELSE rest

RECURSIVE ExtractCorrelationInsightsOf(_)
ExtractCorrelationInsightsOf(corrs) ==
    IF corrs = <<>> THEN <<>>
    ELSE LET c == Head(corrs)
             rest == ExtractCorrelationInsightsOf(Tail(corrs))
         IN IF Abs(c.coefficient) > 70
            THEN <<Insight("correlation", c.direction, {c.column1, c.column2},
                           Abs(c.coefficient),
                           IF Abs(c.coefficient) > 85 THEN "high" ELSE "medium")>>
                 \o rest
            ELSE rest

\* _extract_correlation_insights: the first three correlations only
ExtractCorrelationInsights(corrs) ==
    ExtractCorrelationInsightsOf(Take(corrs, 3))

RECURSIVE ExtractOutlierInsights(_)
\* _extract_outlier_insights: significance = min(iqr_pct / 10, 1.0)
ExtractOutlierInsights(outliers) ==
    IF outliers = <<>> THEN <<>>
    ELSE LET o == Head(outliers)
             rest == ExtractOutlierInsights(Tail(outliers))
         IN IF o.consensus_count > 0 /\ o.consensus_count > 2
            THEN <<Insight("outlier", "anomalies", {o.column},
                           Min(o.iqr_percentage * 10, 100),
                           IF o.consensus_count > 5 THEN "high" ELSE "medium")>>
                 \o rest
            ELSE rest

\* "is_normal" of _extract_distribution_insights: some test says normal
AnyTestNormal(normality) == \E i \in 1..Len(normality) : normality[i]

RECURSIVE ExtractDistributionInsightsFrom(_, _)
\* The loop of _extract_distribution_insights; acc is its local list insights
ExtractDistributionInsightsFrom(dists, acc) ==
    IF dists = <<>> THEN acc
    ELSE LET d == Head(dists)
             skewed ==
                 IF Abs(d.skewness) > 150
                 THEN Append(acc, Insight("distribution", "skewed", {d.column},
                                          Min(Abs(d.skewness) \div 3, 100),
                                          "medium"))
                 ELSE acc
             both ==
                 IF /\ d.normality # "absent"
                    /\ ~AnyTestNormal(d.normality)
                    /\ Len(skewed) < 5
                 THEN Append(skewed, Insight("distribution", "non_normal",
                                             {d.column}, 50, "low"))
                 ELSE skewed
         IN ExtractDistributionInsightsFrom(Tail(dists), both)

\* _extract_distribution_insights
ExtractDistributionInsights(dists) ==
    ExtractDistributionInsightsFrom(dists, <<>>)

\* impact_weights of _rank_insights, in hundredths
impact_weights == [high |-> 100, medium |-> 70, low |-> 40]

\* insight['score'] of _rank_insights, in thousandths
InsightScore(i) == 7 * i.significance + 3 * impact_weights[i.impact]

RECURSIVE InsertByScoreDesc(_, _)
InsertByScoreDesc(s, x) ==
    IF s = <<>> THEN <<x>>
    ELSE IF Head(s).score >= x.score
         THEN <<Head(s)>> \o InsertByScoreDesc(Tail(s), x)
         ELSE <<x>> \o s

RECURSIVE SortByScoreDesc(_)
\* insights.sort(key=score, reverse=True): stable, descending
SortByScoreDesc(s) ==
    IF s = <<>> THEN <<>>
    ELSE InsertByScoreDesc(SortByScoreDesc(SubSeq(s, 1, Len(s) - 1)), s[Len(s)])

\* _rank_insights
RankInsights(ins) ==
    SortByScoreDesc([k \in 1..Len(ins) |->
                        [ins[k] EXCEPT !.score = InsightScore(ins[k])]])

\* The list generate_insights builds before ranking
ExtractAll(a) ==
    ExtractTrendInsights(a.trends)
    \o ExtractCorrelationInsights(a.correlations)
    \o ExtractOutlierInsights(a.outliers)
    \o ExtractDistributionInsights(a.distributions)

\* mutant of TopInsights: the slice keeps six insights
TopSixInsights(r) == Take(r, 6)

\* "return ranked_insights[:5]"
TopInsights(r) == Take(r, 5)

\* generate_insights
GenerateInsights ==
    /\ ipc = "called"
    /\ insights' = ExtractAll(analysis_results)
    /\ ranked_insights' = TopInsights(RankInsights(ExtractAll(analysis_results)))
    /\ ipc' = "returned"
    /\ UNCHANGED analysis_results
    /\ UNCHANGED exceptIns

InitInsights ==
    /\ analysis_results \in
         [trends : SeqsUpTo(TrendPool, MaxFacet),
          correlations : SeqsUpTo(CorrelationPool, MaxFacet),
          outliers : SeqsUpTo(OutlierPool, MaxFacet),
          distributions : SeqsUpTo(DistributionPool, MaxFacet)]
    /\ insights = <<>>
    /\ ranked_insights = <<>>
    /\ ipc = "called"
    /\ IdleSelect
    /\ IdleNarrative
    /\ IdlePipeline
    /\ IdlePreprocess
    /\ IdleRuns
    /\ IdleDetect
    /\ IdleClean
    /\ IdleTrend
    /\ IdleCorr
    /\ IdleOutliers
    /\ IdleFreq
    /\ IdleConvert
    /\ IdleResponse
    /\ IdleFunnel
    /\ IdleWaterfall
    /\ IdleScore
    /\ IdleCombination
    /\ IdleParse

----------------------------------------------------------------------------
(* VisualizationSelector (services/visualizer.py) *)

\* self.chart_type_weights, in hundredths
chart_type_weights ==
    [line |-> 100, bar |-> 90, scatter |-> 95, pie |-> 70, heatmap |-> 110,
     boxplot |-> 100, combination |-> 115, waterfall |-> 95, funnel |-> 85,
     radar |-> 90, area |-> 95, candlestick |-> 80]

\* The chart types the candidate lists of the model are drawn from
ChartTypes == {"heatmap", "combination", "boxplot", "line", "bar"}

\* Candidate charts.  Per type: a plain chart with a high base score, one
\* with a middle base score that refers to column "profit", and one with a
\* lower base score that refers to column "sales" and carries a truthy data
\* characteristic.  score is the base score in tenths.
CandidatePool ==
    {[type |-> t, title |-> "A", score |-> 90, cols |-> {}, chars |-> {}]
        : t \in ChartTypes}
    \cup
    {[type |-> t, title |-> "C", score |-> 80, cols |-> {"profit"},
      chars |-> {}] : t \in ChartTypes}
    \cup
    {[type |-> t, title |-> "B", score |-> 70, cols |-> {"sales"},
      chars |-> {"has_outliers"}] : t \in ChartTypes}

\* The insight lists the scoring reads (significance in hundredths)
InsightPool ==
    { <<>>,
      <<[significance |-> 95, cols |-> {"sales"}],
        [significance |-> 80, cols |-> {"profit"}],
        [significance |-> 75, cols |-> {"sales", "profit"}],
        [significance |-> 60, cols |-> {"sales"}]>> }

RECURSIVE InsightBoost(_, _)
\* insight_boost of _score_and_rank_charts over a list of insights, in
\* thousandths: significance * 2 for each insight sharing a column
InsightBoost(chartCols, ins) ==
    IF ins = <<>> THEN 0
    ELSE (IF chartCols \cap Head(ins).cols # {}
             THEN Head(ins).significance * 2 * 10 ELSE 0)
         + InsightBoost(chartCols, Tail(ins))

\* (variant) the characteristic boost without the funnel flag
CharBoostNoFunnel(chars) ==
      (IF "has_outliers" \in chars THEN 500 ELSE 0)
    + (IF "has_strong_correlations" \in chars THEN 1000 ELSE 0)
    + (IF "has_seasonal" \in chars THEN 500 ELSE 0)

\* char_boost of _score_and_rank_charts, in thousandths
CharBoost(chars) ==
      (IF "has_outliers" \in chars THEN 500 ELSE 0)
    + (IF "has_strong_correlations" \in chars THEN 1000 ELSE 0)
    + (IF "has_seasonal" \in chars THEN 500 ELSE 0)
    + (IF "is_decreasing" \in chars THEN 500 ELSE 0)

\* composite_score of one chart, in thousandths
CompositeScore(chart, ins) ==
    chart.score * chart_type_weights[chart.type]
    + InsightBoost(chart.cols, Take(ins, 3))
    + CharBoost(chart.chars)

\* The chart with its composite_score key set
WithComposite(chart, ins) ==
    [type |-> chart.type, title |-> chart.title, score |-> chart.score,
     cols |-> chart.cols, chars |-> chart.chars,
     composite_score |-> CompositeScore(chart, ins)]

RECURSIVE InsertDesc(_, _)
\* x put into the descending list s behind every element whose key is >= its own
InsertDesc(s, x) ==
    IF s = <<>> THEN <<x>>
    ELSE IF Head(s).composite_score >= x.composite_score
         THEN <<Head(s)>> \o InsertDesc(Tail(s), x)
         ELSE <<x>> \o s

RECURSIVE SortByCompositeDesc(_)
\* list.sort(key=composite_score, reverse=True): stable, descending
SortByCompositeDesc(s) ==
    IF s = <<>> THEN <<>>
    ELSE InsertDesc(SortByCompositeDesc(SubSeq(s, 1, Len(s) - 1)), s[Len(s)])

\* _score_and_rank_charts
ScoreAndRankCharts(cs, ins) ==
    SortByCompositeDesc([i \in 1..Len(cs) |-> WithComposite(cs[i], ins)])

\* priority_types of _select_diverse_charts
PriorityTypes == {"heatmap", "combination", "boxplot"}

NoCounts == [t \in DOMAIN chart_type_weights |-> 0]

RECURSIVE PriorityPass(_, _, _, _, _)
\* First loop of _select_diverse_charts from index i on; st is the pair of
\* selected and type_counts, prio the priority types not yet removed
PriorityPass(sc, i, sel, counts, prio) ==
    IF i > Len(sc) THEN [selected |-> sel, type_counts |-> counts]
    ELSE IF sc[i].type \in prio /\ counts[sc[i].type] = 0
         THEN PriorityPass(sc, i + 1, Append(sel, sc[i]),
                           [counts EXCEPT ![sc[i].type] = 1],
                           prio \ {sc[i].type})
         ELSE PriorityPass(sc, i + 1, sel, counts, prio)

\* (variant) the second loop stops one chart short of max_charts
FillStopsEarly(sel, maxc) == Len(sel) >= maxc - 1

\* "if len(selected) >= self.max_charts: break" of the second loop
FillStops(sel, maxc) == Len(sel) >= maxc

\* mutant of TypeCapReached: the cap is three charts of a type
TypeCapReachedAtThree(counts, t) == counts[t] >= 3

\* "if type_counts.get(chart_type, 0) >= 2: continue" of the second loop
TypeCapReached(counts, t) == counts[t] >= 2

RECURSIVE FillPass(_, _, _, _, _)
\* Second loop of _select_diverse_charts from index i on
FillPass(sc, i, sel, counts, maxc) ==
    IF i > Len(sc) THEN sel
    ELSE IF sc[i] \in Range(sel)
         THEN FillPass(sc, i + 1, sel, counts, maxc)
    ELSE IF TypeCapReached(counts, sc[i].type)
         THEN FillPass(sc, i + 1, sel, counts, maxc)
    ELSE IF FillStops(Append(sel, sc[i]), maxc)
         THEN Append(sel, sc[i])
    ELSE FillPass(sc, i + 1, Append(sel, sc[i]),
                  [counts EXCEPT ![sc[i].type] = @ + 1], maxc)

\* mutant of Truncate: the final slice is missing
TruncateMissing(sel, maxc) == sel

\* "return selected[:self.max_charts]"
Truncate(sel, maxc) == Take(sel, maxc)

\* mutant of ResortSelected: the picks stay in the order of the two passes
ResortMissing(sel) == sel

\* "selected.sort(key=lambda x: x.get('composite_score', 0), reverse=True)"
ResortSelected(sel) == SortByCompositeDesc(sel)

\* _select_diverse_charts
SelectDiverseCharts(sc, maxc) ==
    LET p == PriorityPass(sc, 1, <<>>, NoCounts, PriorityTypes)
        filled == FillPass(sc, 1, p.selected, p.type_counts, maxc)
    IN  Truncate(ResortSelected(filled), maxc)

\* select_visualizations, line 89: the candidates are scored and ranked
ScoreStep ==
    /\ vpc = "generated"
    /\ scored_charts' = ScoreAndRankCharts(charts, analysisInsights)
    /\ vpc' = "scored"
    /\ UNCHANGED <<max_charts, analysisInsights, charts, selected>>
    /\ UNCHANGED exceptViz

\* select_visualizations, lines 92-94: the diverse selection is returned
SelectStep ==
    /\ vpc = "scored"
    /\ selected' = SelectDiverseCharts(scored_charts, max_charts)
    /\ vpc' = "returned"
    /\ UNCHANGED <<max_charts, analysisInsights, charts, scored_charts>>
    /\ UNCHANGED exceptViz

InitSelect ==
    /\ max_charts \in 1..MaxChartsCfg
    /\ analysisInsights \in InsightPool
    /\ charts \in SeqsUpTo(CandidatePool, MaxCands)
    /\ scored_charts = <<>>
    /\ selected = <<>>
    /\ vpc = "generated"
    /\ IdleInsights
    /\ IdleNarrative
    /\ IdlePipeline
    /\ IdlePreprocess
    /\ IdleRuns
    /\ IdleDetect
    /\ IdleClean
    /\ IdleTrend
    /\ IdleCorr
    /\ IdleOutliers
    /\ IdleFreq
    /\ IdleConvert
    /\ IdleResponse
    /\ IdleFunnel
    /\ IdleWaterfall
    /\ IdleScore
    /\ IdleCombination
    /\ IdleParse

NextSelect == ScoreStep \/ SelectStep

SpecSelect == InitSelect /\ [][NextSelect]_vars

----------------------------------------------------------------------------
(* Claims about the visualization selection, checked under SpecSelect *)

\* The positions of list s holding a chart of type t
OfType(s, t) == {i \in 1..Len(s) : s[i].type = t}

\* C1: the list returned by select_visualizations never holds more than
\* max_charts charts, whatever the candidate list and max_charts >= 1.
C1_AtMostMaxCharts ==
    vpc = "returned" => Len(selected) <= max_charts

\* C1 witness: the two passes picked more charts than max_charts allows (a
\* priority chart of each of two types with max_charts = 1) and the returned
\* list holds exactly max_charts charts.
C1_Witness ==
    /\ vpc = "returned"
    /\ max_charts = 1
    /\ Cardinality({c.type : c \in Range(charts)} \cap PriorityTypes) >= 2
    /\ Len(selected) = max_charts

\* C2: the returned list holds at most 2 charts of any one chart type, the
\* charts of the priority pass and of the fill pass counted together.
C2_AtMostTwoPerType ==
    vpc = "returned" =>
        \A t \in ChartTypes : Cardinality(OfType(selected, t)) <= 2

\* C2 witness: three distinct candidates of a priority type, room for all of
\* them, and exactly two of them returned.
C2_Witness ==
    /\ vpc = "returned"
    /\ max_charts >= 3
    /\ \E t \in PriorityTypes :
          /\ Cardinality({charts[i] : i \in OfType(charts, t)}) >= 3
          /\ Cardinality(OfType(selected, t)) = 2

\* The priority types that have a candidate
PriorityTypesPresent == {c.type : c \in Range(scored_charts)} \cap PriorityTypes

\* The highest composite score among the scored candidates of type t
BestOfType(t) ==
    CHOOSE m \in {c.composite_score : c \in Range(scored_charts)} :
        /\ \E c \in Range(scored_charts) : c.type = t /\ c.composite_score = m
        /\ \A c \in Range(scored_charts) : c.type = t => c.composite_score <= m

\* C3: when max_charts is at least the number of priority types that have a
\* candidate, the returned list holds, for each such type, a candidate of
\* that type with the highest composite score of the type.
C3_PriorityGuaranteed ==
    (vpc = "returned" /\ max_charts >= Cardinality(PriorityTypesPresent)) =>
        \A t \in PriorityTypesPresent :
            \E i \in 1..Len(selected) :
                /\ selected[i].type = t
                /\ selected[i].composite_score = BestOfType(t)

----------------------------------------------------------------------------
(* The insight generator on its own *)

NextInsights == GenerateInsights

SpecInsights == InitInsights /\ [][NextInsights]_vars

\* C4: generate_insights returns min(5, number of extracted insights)
\* insights in non-increasing order of 0.7*significance + 0.3*impactWeight,
\* and no extracted insight that is left out scores strictly higher than one
\* that is returned.
C4_TopFiveByScore ==
    ipc = "returned" =>
        /\ Len(ranked_insights) = Min(5, Len(insights))
        /\ \A k \in 1..Len(ranked_insights) :
              ranked_insights[k].score = InsightScore(ranked_insights[k])
        /\ \A k \in 1..(Len(ranked_insights) - 1) :
              ranked_insights[k].score >= ranked_insights[k + 1].score
        /\ \A k \in 1..Len(ranked_insights) :
              \E j \in 1..Len(insights) :
                  ranked_insights[k] =
                      [insights[j] EXCEPT !.score = InsightScore(insights[j])]
        /\ \A j \in 1..Len(insights) :
              LET x == [insights[j] EXCEPT !.score = InsightScore(insights[j])]
                  InResult == Cardinality({k \in 1..Len(ranked_insights) :
                                              ranked_insights[k] = x})
                  InInput == Cardinality({k \in 1..Len(insights) :
                                              insights[k] = insights[j]})
              IN  InResult < InInput =>
                      \A k \in 1..Len(ranked_insights) :
                          x.score <= ranked_insights[k].score

\* C4 witness: more than five insights were extracted, their scores differ,
\* and five were returned.
C4_Witness ==
    /\ ipc = "returned"
    /\ Len(insights) > 5
    /\ Len(ranked_insights) = 5
    /\ Cardinality({InsightScore(insights[j]) : j \in 1..Len(insights)}) >= 3

----------------------------------------------------------------------------
(* Claims about generate_narrative, checked under SpecNarrative *)

NarrativeOver == npc \in {"returned", "raised"}

\* C6: for every max_retries >= 1, when every attempt fails the model is
\* called exactly max_retries times and the error 'Narrative generation
\* failed after <max_retries> attempts' is raised.
C6_AllAttemptsThenError ==
    (NarrativeOver /\ failFirst >= max_retries) =>
        /\ calls = max_retries
        /\ npc = "raised"
        /\ raised = [error |-> "failed_after_attempts",
                     attempts |-> max_retries]

\* C7: when attempts 1..k-1 fail and attempt k succeeds (k <= max_retries),
\* generate_narrative returns after exactly k model calls and k-1 sleeps of
\* 1, 2, 4 seconds in that order; no sleep follows the last permitted
\* attempt.
C7_ReturnsAtFirstSuccess ==
    /\ (NarrativeOver /\ failFirst < max_retries) =>
          /\ npc = "returned"
          /\ calls = failFirst + 1
          /\ Len(sleeps) = failFirst
          /\ \A i \in 1..Len(sleeps) : i <= 3 /\ sleeps[i] = 2 ^ (i - 1)
    /\ Len(sleeps) <= max_retries - 1

SectionLengths == {JoinedLen(narratives[sec]) : sec \in SectionNames}

\* C8: generate_narrative returns only sections that are all present and at
\* least 30 characters long; a reply with a missing or too-short section is
\* a failed attempt, after which nothing of it is returned.
C8_ReturnsOnlyCompleteSections ==
    /\ npc = "returned" => \A n \in SectionLengths : n >= 30
    /\ npc # "returned" => narratives = NoSections

\* C8 witness: an attempt failed on a too-short section, and a later reply
\* with a section of exactly 30 characters was returned.
C8_Witness ==
    /\ npc = "returned"
    /\ last_error = "too_short"
    /\ 30 \in SectionLengths

----------------------------------------------------------------------------
(* Claims about analyze_data, checked under SpecPipeline *)

StatusesWritten == {status_calls[i].status : i \in 1..Len(status_calls)}

\* C5: when narrative generation fails the request fails: the pipeline has
\* called generate_narrative at most once (exactly once when it is that call
\* that raised), no visualization selection and no 'completed' update
\* follow, and the request ends with the status update 'failed' and an
\* HTTP error.
C5_NarrativeFailureIsTerminal ==
    failed_stage = "NARRATIVE_GENERATION_ERROR" =>
        /\ gen_calls <= 1
        /\ apc \in {"report_failure", "raised"}
        /\ viz_calls = 0
        /\ "completed" \notin StatusesWritten
        /\ apc = "raised" =>
              /\ status_calls[Len(status_calls)] =
                     StatusCall("failed", "None", -1,
                                "NARRATIVE_GENERATION_ERROR")
              /\ Cardinality({i \in 1..Len(status_calls) :
                                 status_calls[i].status = "failed"}) = 1
              /\ http_error = 500
              /\ last_write_ok => job.status = "failed"

\* C5 witness: generate_narrative was called once and raised, and the
\* request ended with the job document marked failed.
C5_Witness ==
    /\ failed_stage = "NARRATIVE_GENERATION_ERROR"
    /\ gen_calls = 1
    /\ apc = "raised"
    /\ job.status = "failed"
    /\ job.progress = 50

----------------------------------------------------------------------------
(* The visualization stage of analyze_data run in two worker processes *)

\* max_charts of the selector analyze_data builds
PipelineMaxCharts == 6

\* The title strings of the candidate charts
Titles == {c.title : c \in CandidatePool}

\* Values hash() may give a string.  Which one it gives is fixed for the
\* life of a process and, with hash randomization, differs between processes.
HashValues == {-3, 7, 10007}

\* generate_chart_config in a process whose hash() is h; the chartId
\* f"{type}_{hash(title) % 10000}" is kept as the pair of its two parts
GenerateChartConfig(chart, h) ==
    [chartId |-> <<chart.type, h[chart.title] % 10000>>,
     type |-> chart.type,
     title |-> chart.title,
     config |-> chart.cols]

\* analyze_data, lines 243-247 and 264, in process p
RunVisualization(p) ==
    /\ ~run_done[p]
    /\ LET chart_specs ==
               SelectDiverseCharts(ScoreAndRankCharts(run_input, <<>>),
                                   PipelineMaxCharts)
       IN run_out' = [run_out EXCEPT ![p] =
                         [i \in 1..Len(chart_specs) |->
                             GenerateChartConfig(chart_specs[i], str_hash[p])]]
    /\ run_done' = [run_done EXCEPT ![p] = TRUE]
    /\ UNCHANGED <<str_hash, run_input>>
    /\ UNCHANGED exceptRun

InitRuns ==
    /\ str_hash \in [Procs -> [Titles -> HashValues]]
    /\ run_input \in SeqsUpTo(CandidatePool, MaxRunCands)
    /\ run_out = [p \in Procs |-> <<>>]
    /\ run_done = [p \in Procs |-> FALSE]
    /\ IdleSelect
    /\ IdleInsights
    /\ IdleNarrative
    /\ IdlePipeline
    /\ IdlePreprocess
    /\ IdleDetect
    /\ IdleClean
    /\ IdleTrend
    /\ IdleCorr
    /\ IdleOutliers
    /\ IdleFreq
    /\ IdleConvert
    /\ IdleResponse
    /\ IdleFunnel
    /\ IdleWaterfall
    /\ IdleScore
    /\ IdleCombination
    /\ IdleParse

NextRuns == \E p \in Procs : RunVisualization(p)

SpecRuns == InitRuns /\ [][NextRuns]_vars

\* C9: two runs of the pipeline on the identical input table, possibly in
\* two worker processes, return identical chart lists (type, title, data,
\* config, insight and chartId of every chart).
C9_RunsAgree ==
    (\A p \in Procs : run_done[p]) => run_out[1] = run_out[2]

----------------------------------------------------------------------------
(* Claims about preprocess, checked under SpecValidate *)

Validated == "validate_data" \in Range(steps_run)

\* C10: validate_data, and with it preprocess before any type detection or
\* cleaning, raises exactly when the column count is below min_columns or
\* the row count is below min_rows; the error names a dimension that is
\* deficient, with its required and found counts; no error is raised when
\* both minimums are met.
C10_ValidationError ==
    Validated =>
        /\ (ppc = "raised") <=>
              (shape.cols < min_columns \/ shape.rows < min_rows)
        /\ ppc = "raised" =>
              /\ value_error.dimension \in {"columns", "rows"}
              /\ value_error.dimension = "columns" =>
                    /\ shape.cols < min_columns
                    /\ value_error.required = min_columns
                    /\ value_error.found = shape.cols
              /\ value_error.dimension = "rows" =>
                    /\ shape.rows < min_rows
                    /\ value_error.required = min_rows
                    /\ value_error.found = shape.rows
              /\ steps_run = <<"read_file", "validate_data">>
        /\ ppc # "raised" => value_error = NoError

\* C10 witness: a table with enough columns and too few rows was rejected
\* with the error naming the rows.
C10_Witness ==
    /\ ppc = "raised"
    /\ Validated
    /\ shape.cols >= min_columns
    /\ shape.rows < min_rows
    /\ value_error = [dimension |-> "rows", required |-> min_rows,
                found |-> shape.rows]

----------------------------------------------------------------------------
(* Order of the list select_visualizations returns, under SpecSelect *)

\* C20: the list select_visualizations returns is in non-increasing order of
\* composite_score, whichever pass picked each chart.
C20_SortedByComposite ==
    vpc = "returned" =>
        \A i \in 1..Len(selected) : \A j \in 1..Len(selected) :
            i < j => selected[i].composite_score >= selected[j].composite_score

\* C20 witness: the returned list starts with a chart the fill pass picked
\* and goes on with a lower-scored chart the priority pass picked before it.
C20_Witness ==
    /\ vpc = "returned"
    /\ Len(selected) >= 2
    /\ selected[1].type \notin PriorityTypes
    /\ selected[2].type \in PriorityTypes
    /\ selected[1].composite_score > selected[2].composite_score

----------------------------------------------------------------------------
(* DataPreprocessor.detect_column_types (services/preprocessor.py)          *)
(* A column is kept as what the method reads of it: its storage dtype, its  *)
(* length, the number of its null cells, the number of its distinct         *)
(* non-null values, and whether pd.to_datetime accepts the first 100 of its *)
(* non-null values.                                                         *)

MaxDetectCols == 1   \* most columns of the table given to detect_column_types

DTypes == {"datetime64", "int64", "float64", "bool", "object", "category"}

\* Column lengths, null counts and distinct-value counts explored: around
\* the 20-distinct-values and the 5% thresholds
ColumnLens == {0, 1, 21, 420, 421}
DistinctCounts == {0, 1, 20, 21}

\* pd.api.types.is_numeric_dtype
IsNumericDtype(col) == col.dtype \in {"int64", "float64", "bool"}

\* The columns a DataFrame can hold
ColumnSpace ==
    {c \in [dtype : DTypes, len : ColumnLens, nulls : ColumnLens \cup {0, 1},
            nunique : DistinctCounts, head_parses : BOOLEAN] :
        /\ c.nulls \in {0, 1, c.len}
        /\ c.nulls <= c.len
        /\ c.nunique <= c.len - c.nulls
        /\ (c.nunique = 0) <=> (c.nulls = c.len)
        /\ c.dtype \in {"int64", "bool"} => c.nulls = 0
        /\ c.dtype = "bool" => c.nunique <= 2
        /\ (c.dtype = "datetime64" /\ c.nulls < c.len) => c.head_parses}

\* df[col].isna().all()
IsAllNull(col) == col.nulls = col.len

\* _is_datetime
IsDatetime(col) ==
    IF col.dtype = "datetime64" THEN TRUE
    ELSE IF IsNumericDtype(col) THEN FALSE
    ELSE col.head_parses

\* mutant of IsCategorical: only the unique-value ratio is tested
IsCategoricalRatioOnly(col) ==
    IF col.dtype = "object"
    THEN col.nunique * 100 < 5 * col.len
    ELSE FALSE

\* _is_categorical with threshold 0.05: unique_ratio = nunique / len
IsCategorical(col) ==
    IF col.dtype = "object"
    THEN col.nunique * 100 < 5 * col.len \/ col.nunique <= 20
    ELSE FALSE

\* The body of the loop of detect_column_types
ColumnTypeOf(col) ==
    IF IsAllNull(col) THEN "text"
    ELSE IF IsDatetime(col) THEN "datetime"
    ELSE IF IsNumericDtype(col) THEN "numeric"
    ELSE IF IsCategorical(col) THEN "categorical"
    ELSE "text"

\* detect_column_types
DetectTypes ==
    /\ dpc = "called"
    /\ column_types' = [i \in 1..Len(detect_df) |-> ColumnTypeOf(detect_df[i])]
    /\ dpc' = "returned"
    /\ UNCHANGED detect_df
    /\ UNCHANGED exceptDetect

InitDetect ==
    /\ detect_df \in SeqsUpTo(ColumnSpace, MaxDetectCols)
    /\ column_types = <<>>
    /\ dpc = "called"
    /\ IdleSelect
    /\ IdleInsights
    /\ IdleNarrative
    /\ IdlePipeline
    /\ IdlePreprocess
    /\ IdleRuns
    /\ IdleClean
    /\ IdleTrend
    /\ IdleCorr
    /\ IdleOutliers
    /\ IdleFreq
    /\ IdleConvert
    /\ IdleResponse
    /\ IdleFunnel
    /\ IdleWaterfall
    /\ IdleScore
    /\ IdleCombination
    /\ IdleParse

NextDetect == DetectTypes

SpecDetect == InitDetect /\ [][NextDetect]_vars

\* The type the inference rule gives a column, as a table of cases
RuleType(col) ==
    CASE col.nulls = col.len -> "text"
      [] col.nulls < col.len /\ ~IsNumericDtype(col) /\ col.head_parses
            -> "datetime"
      [] col.nulls < col.len /\ IsNumericDtype(col) -> "numeric"
      [] /\ col.nulls < col.len /\ ~IsNumericDtype(col) /\ ~col.head_parses
         /\ col.dtype = "object"
         /\ (col.nunique * 20 < col.len \/ col.nunique <= 20)
            -> "categorical"
      [] OTHER -> "text"

\* C11: detect_column_types gives every column exactly one of numeric,
\* categorical, datetime and text, by first match of: all null -> text;
\* parseable as a timestamp and not numeric storage -> datetime; numeric
\* storage -> numeric; string-typed with unique ratio < 5% or at most 20
\* distinct values -> categorical; otherwise text.
C11_TypeByPrecedence ==
    dpc = "returned" =>
        /\ Len(column_types) = Len(detect_df)
        /\ \A i \in 1..Len(detect_df) :
              /\ column_types[i] \in {"numeric", "categorical", "datetime", "text"}
              /\ column_types[i] = RuleType(detect_df[i])

\* C11 witness: a string column whose 20 distinct values are more than 5% of
\* its rows was typed categorical.
C11_Witness ==
    /\ dpc = "returned"
    /\ \E i \in 1..Len(detect_df) :
          /\ detect_df[i].dtype = "object"
          /\ detect_df[i].nunique = 20
          /\ detect_df[i].nunique * 20 >= detect_df[i].len
          /\ column_types[i] = "categorical"

----------------------------------------------------------------------------
(* DataPreprocessor.handle_missing_values (services/preprocessor.py)        *)
(* A table is a list of columns, a column a list of cells.  Cell values are *)
(* numbers in twelfths, so that the mean of up to four of them is a whole   *)
(* number; strings and timestamps are numbered the same way.                *)

MaxCleanCols == 1    \* most columns of the table given to handle_missing_values
MaxCleanRows == 4    \* most rows of that table

\* A missing cell (NaN, None, NaT)
NA == -1

\* The empty string that fills text columns
EmptyString == 0

\* Non-missing cell values
CellValues == {12, 24}

SemanticTypes == {"numeric", "categorical", "datetime", "text"}

\* Tables of r rows and up to MaxCleanCols columns
TablesOfRows(r) == SeqsUpTo([1..r -> CellValues \cup {NA}], MaxCleanCols)

\* series.isna().sum()
NullCount(cells) == Cardinality({r \in 1..Len(cells) : cells[r] = NA})

RECURSIVE SumCells(_)
SumCells(cells) ==
    IF cells = <<>> THEN 0
    ELSE (IF Head(cells) = NA THEN 0 ELSE Head(cells)) + SumCells(Tail(cells))

\* series.mean(): NaN (here NA) when no cell has a value
Mean(cells) ==
    IF NullCount(cells) = Len(cells) THEN NA
    ELSE SumCells(cells) \div (Len(cells) - NullCount(cells))

CountOf(cells, v) == Cardinality({r \in 1..Len(cells) : cells[r] = v})

\* series.mode(): the most frequent values in ascending order, as a set
Mode(cells) ==
    {v \in Range(cells) \ {NA} :
        \A w \in Range(cells) \ {NA} : CountOf(cells, v) >= CountOf(cells, w)}

\* mode_value[0]
FirstMode(cells) ==
    CHOOSE v \in Mode(cells) : \A w \in Mode(cells) : v <= w

\* series.fillna(value)
FillNa(cells, value) ==
    [r \in 1..Len(cells) |-> IF cells[r] = NA THEN value ELSE cells[r]]

RECURSIVE FFillFrom(_, _)
FFillFrom(cells, lastv) ==
    IF cells = <<>> THEN <<>>
    ELSE LET v == IF Head(cells) = NA THEN lastv ELSE Head(cells)
         IN  <<v>> \o FFillFrom(Tail(cells), v)

\* series.ffill()
FFill(cells) == FFillFrom(cells, NA)

\* mutant of SkipsColumn: columns are skipped above 50% missing
SkipsColumnAboveHalf(cells) == NullCount(cells) * 10 > 5 * Len(cells)

\* "missing_ratio > 0.3" with missing_ratio = isna().sum() / len(df_clean);
\* for an empty table the ratio is NaN and the comparison is false
SkipsColumn(cells) == NullCount(cells) * 10 > 3 * Len(cells)

\* df_clean[col].fillna(value, inplace=True): it fills the column of
\* df_clean when the chained access yields a view of it (pandas without
\* copy-on-write) and fills a temporary otherwise
FillNaInplace(cells, value, effective) ==
    IF effective THEN FillNa(cells, value) ELSE cells

\* The body of the loop of handle_missing_values for one column
CleanColumn(cells, col_type, effective) ==
    IF SkipsColumn(cells) THEN cells
    ELSE IF col_type = "numeric"
         THEN FillNaInplace(cells, Mean(cells), effective)
    ELSE IF col_type = "categorical"
         THEN IF Mode(cells) # {}
              THEN FillNaInplace(cells, FirstMode(cells), effective)
              ELSE cells
    ELSE IF col_type = "datetime" THEN FFill(cells)
    ELSE FillNaInplace(cells, EmptyString, effective)

\* handle_missing_values: the loop runs on df.copy(), the table passed in
\* stays as it was
HandleMissing ==
    /\ cpc = "called"
    /\ df_clean' = [c \in 1..Len(clean_df) |->
                       CleanColumn(clean_df[c], clean_types[c], chained_inplace)]
    /\ df_after' = clean_df
    /\ cpc' = "returned"
    /\ UNCHANGED <<clean_df, clean_types, chained_inplace>>
    /\ UNCHANGED exceptClean

InitClean ==
    /\ \E r \in 0..MaxCleanRows : clean_df \in TablesOfRows(r)
    /\ clean_types \in [1..Len(clean_df) -> SemanticTypes]
    /\ chained_inplace \in BOOLEAN
    /\ df_after = <<>>
    /\ df_clean = <<>>
    /\ cpc = "called"
    /\ IdleSelect
    /\ IdleInsights
    /\ IdleNarrative
    /\ IdlePipeline
    /\ IdlePreprocess
    /\ IdleRuns
    /\ IdleDetect
    /\ IdleTrend
    /\ IdleCorr
    /\ IdleOutliers
    /\ IdleFreq
    /\ IdleConvert
    /\ IdleResponse
    /\ IdleFunnel
    /\ IdleWaterfall
    /\ IdleScore
    /\ IdleCombination
    /\ IdleParse

NextClean == HandleMissing

SpecClean == InitClean /\ [][NextClean]_vars

\* C12: handle_missing_values leaves every column with more than 30% missing
\* cells as it was, changes no cell that had a value, keeps the numbers of
\* rows and columns, and leaves the table passed in unmodified.
C12_CleanFrame ==
    cpc = "returned" =>
        /\ Len(df_clean) = Len(clean_df)
        /\ df_after = clean_df
        /\ \A c \in 1..Len(clean_df) :
              /\ Len(df_clean[c]) = Len(clean_df[c])
              /\ NullCount(clean_df[c]) * 10 > 3 * Len(clean_df[c])
                    => df_clean[c] = clean_df[c]
              /\ \A r \in 1..Len(clean_df[c]) :
                    clean_df[c][r] # NA => df_clean[c][r] = clean_df[c][r]

\* C12 witness: a numeric column with one missing cell in three (above 30%)
\* came back as it was, although fillna reaches the columns of df_clean.
C12_Witness ==
    /\ cpc = "returned"
    /\ \E c \in 1..Len(clean_df) :
          /\ Len(clean_df[c]) = 3
          /\ NullCount(clean_df[c]) = 1
          /\ df_clean[c] = clean_df[c]
          /\ clean_types[c] = "numeric"
          /\ chained_inplace

----------------------------------------------------------------------------
(* TrendDetector.detect_trends (services/analyzer.py), for one numeric      *)
(* column and one datetime column.  The rows are in time order with         *)
(* distinct timestamps, so that sort_values leaves them in place.           *)

MaxObs == 4          \* most rows of the table given to detect_trends
MaxTick == 3         \* latest timestamp, in ticks
MaxY == 2            \* largest value of the numeric column

\* Days in a tick: daily observations, or one every hundred days
TickDays == {1, 100}

RECURSIVE IsStrictlyIncreasing(_)
IsStrictlyIncreasing(s) ==
    \/ Len(s) <= 1
    \/ /\ Head(s) < Head(Tail(s))
       /\ IsStrictlyIncreasing(Tail(s))

\* The timestamps of n rows in time order
TickSeqs(n) == {s \in [1..n -> 0..MaxTick] : IsStrictlyIncreasing(s)}

\* The rows valid_mask keeps (timestamps are never missing here)
ValidRows(ys) == {r \in 1..Len(ys) : ys[r] # NA}

RECURSIVE SumOver(_, _)
\* The sum of f[r] over the rows in rs
SumOver(f, rs) ==
    IF rs = {} THEN 0
    ELSE LET r == CHOOSE q \in rs : TRUE
         IN  f[r] + SumOver(f, rs \ {r})

\* time_numeric in ticks: the time since the first timestamp of the table
TimeNumeric(ticks) == [r \in 1..Len(ticks) |-> ticks[r] - ticks[1]]

\* n * sum(x*y) - sum(x) * sum(y) over the valid rows: the sign of the
\* least-squares slope, which is Sxy / Sxx per tick
Sxy(x, y, rs) ==
    Cardinality(rs) * SumOver([r \in rs |-> x[r] * y[r]], rs)
        - SumOver(x, rs) * SumOver(y, rs)

\* n * sum(x*x) - sum(x)^2 over the valid rows
Sxx(x, rs) ==
    Cardinality(rs) * SumOver([r \in rs |-> x[r] * x[r]], rs)
        - SumOver(x, rs) * SumOver(x, rs)

\* n^2 times the variance np.std squares: n * sum(y*y) - sum(y)^2
VarN(y, rs) ==
    Cardinality(rs) * SumOver([r \in rs |-> y[r] * y[r]], rs)
        - SumOver(y, rs) * SumOver(y, rs)

\* "abs(slope) < 0.01 * max(y_std, 1)" with slope = Sxy / (u * Sxx) per
\* day and y_std = sqrt(VarN) / n: "lt", "eq" or "gt"
SlopeAgainstThreshold(x, y, rs, u) ==
    LET n == Cardinality(rs)
        a == Abs(Sxy(x, y, rs))
        lhs == IF VarN(y, rs) <= n * n
               THEN 100 * a
               ELSE (100 * n * a) * (100 * n * a)
        rhs == IF VarN(y, rs) <= n * n
               THEN u * Sxx(x, rs)
               ELSE (u * Sxx(x, rs)) * (u * Sxx(x, rs)) * VarN(y, rs)
    IN  IF lhs < rhs THEN "lt" ELSE IF lhs = rhs THEN "eq" ELSE "gt"

\* The direction by the sign of the slope
DirectionBySign(x, y, rs) ==
    IF Sxy(x, y, rs) > 0 THEN "increasing" ELSE "decreasing"

\* Lines 84-91: the directions the floating-point comparison can give; a
\* slope exactly at the threshold may round to either side of it
Directions(x, y, rs, u) ==
    IF VarN(y, rs) = 0 THEN {"stable"}
    ELSE LET c == SlopeAgainstThreshold(x, y, rs, u)
         IN  IF c = "lt" THEN {"stable"}
             ELSE IF c = "gt" THEN {DirectionBySign(x, y, rs)}
             ELSE {"stable", DirectionBySign(x, y, rs)}

\* "isna().sum() / len(df_sorted) > 0.3"
TooManyMissing(ys) == NullCount(ys) * 10 > 3 * Len(ys)

\* detect_trends: the column is skipped
DetectTrendsSkips ==
    /\ tpc = "called"
    /\ TooManyMissing(trend_y) \/ Cardinality(ValidRows(trend_y)) < 3
    /\ trend_list' = <<>>
    /\ tpc' = "returned"
    /\ UNCHANGED <<trend_ticks, tick_days, trend_y>>
    /\ UNCHANGED exceptTrend

\* detect_trends: the column gets a trend record
DetectTrendsReports ==
    /\ tpc = "called"
    /\ ~TooManyMissing(trend_y)
    /\ Cardinality(ValidRows(trend_y)) >= 3
    /\ \E direction \in Directions(TimeNumeric(trend_ticks), trend_y,
                                    ValidRows(trend_y), tick_days) :
          trend_list' = <<[column |-> "value", direction |-> direction]>>
    /\ tpc' = "returned"
    /\ UNCHANGED <<trend_ticks, tick_days, trend_y>>
    /\ UNCHANGED exceptTrend

InitTrend ==
    /\ \E n \in 0..MaxObs :
          /\ trend_ticks \in TickSeqs(n)
          /\ trend_y \in [1..n -> 0..MaxY \cup {NA}]
    /\ tick_days \in TickDays
    /\ trend_list = <<>>
    /\ tpc = "called"
    /\ IdleSelect
    /\ IdleInsights
    /\ IdleNarrative
    /\ IdlePipeline
    /\ IdlePreprocess
    /\ IdleRuns
    /\ IdleDetect
    /\ IdleClean
    /\ IdleCorr
    /\ IdleOutliers
    /\ IdleFreq
    /\ IdleConvert
    /\ IdleResponse
    /\ IdleFunnel
    /\ IdleWaterfall
    /\ IdleScore
    /\ IdleCombination
    /\ IdleParse

NextTrend == DetectTrendsSkips \/ DetectTrendsReports

SpecTrend == InitTrend /\ [][NextTrend]_vars

RECURSIVE IsStrictlyDecreasing(_)
IsStrictlyDecreasing(s) ==
    \/ Len(s) <= 1
    \/ /\ Head(s) > Head(Tail(s))
       /\ IsStrictlyDecreasing(Tail(s))

\* C13: for a numeric series of at least 3 observations that strictly
\* increases along a strictly increasing time index, detect_trends reports
\* direction 'increasing'; for a strictly decreasing one, 'decreasing'.
C13_MonotoneDirection ==
    (tpc = "returned" /\ Len(trend_y) >= 3 /\ NullCount(trend_y) = 0) =>
        /\ IsStrictlyIncreasing(trend_y) =>
              (Len(trend_list) = 1 /\ trend_list[1].direction = "increasing")
        /\ IsStrictlyDecreasing(trend_y) =>
              (Len(trend_list) = 1 /\ trend_list[1].direction = "decreasing")

----------------------------------------------------------------------------
(* CorrelationCalculator.calculate_correlations (services/analyzer.py)      *)
(* A pair of columns is kept as what the method reads of it: the number of  *)
(* rows where both have a value and the Pearson and Spearman coefficients   *)
(* over those rows, in hundredths.  The p-values follow from them.          *)

MaxNumCols == 3      \* most numeric columns given to calculate_correlations

\* The coefficient of a pair with a constant column
NaN == 1000

\* Numbers of jointly non-null rows explored
SampleSizes == {2, 10, 100}

\* Smallest |r|, in ten-thousandths, whose two-sided p-value is below 0.05
\* for n rows (t distribution with n - 2 degrees of freedom, as pearsonr and
\* spearmanr compute it)
CriticalR == [n \in SampleSizes |->
                 IF n = 10 THEN 6319 ELSE IF n = 100 THEN 1966 ELSE 10001]

Coefficients == {30, 55, -80, 100}

\* Thresholds explored: the default 0.5 and 0.9
Thresholds == {50, 90}

\* What the rows of a pair of columns can give
PairSpace ==
    {p \in [n : SampleSizes, pearson : Coefficients \cup {NaN},
            spearman : Coefficients \cup {NaN}] :
        /\ (p.pearson = NaN) <=> (p.spearman = NaN)
        /\ p.pearson = 100 => p.spearman = 100
        /\ p.n = 2 => (p.pearson = 100 /\ p.spearman = 100)}

\* The pairs the two loops visit, in the order they visit them
RECURSIVE PairsFrom(_, _, _)
PairsFrom(i, j, k) ==
    IF i > k THEN <<>>
    ELSE IF j > k THEN PairsFrom(i + 1, i + 2, k)
    ELSE <<(<<i, j>>)>> \o PairsFrom(i, j + 1, k)

ColumnPairs(k) == PairsFrom(1, 2, k)

\* "abs(coef) < threshold": false for NaN
AbsBelow(coef, t) == coef # NaN /\ Abs(coef) < t

\* "p < self.significance_level" for the p-value of coef over n rows:
\* false for NaN
PBelowLevel(coef, n) == coef # NaN /\ Abs(coef) * 100 >= CriticalR[n]

\* mutant of SkipsPair: the pair is dropped when either coefficient is weak
SkipsPairEitherBelow(p, t) == AbsBelow(p.pearson, t) \/ AbsBelow(p.spearman, t)

\* "skip if both correlations are below threshold"
SkipsPair(p, t) == AbsBelow(p.pearson, t) /\ AbsBelow(p.spearman, t)

\* primary_method
PrimaryMethod(p) == IF PBelowLevel(p.pearson, p.n) THEN "pearson" ELSE "spearman"

\* primary_coef
PrimaryCoef(p) == IF PrimaryMethod(p) = "pearson" THEN p.pearson ELSE p.spearman

\* "abs(primary_coef) > 0.7 ... > 0.5 ..."
SignificanceBand(coef) ==
    IF coef # NaN /\ Abs(coef) > 70 THEN "strong"
    ELSE IF coef # NaN /\ Abs(coef) > 50 THEN "moderate"
    ELSE "weak"

\* The record appended for a pair
CorrelationRecord(pr, p) ==
    [column1 |-> pr[1], column2 |-> pr[2],
     coefficient |-> PrimaryCoef(p), method |-> PrimaryMethod(p),
     significance |-> SignificanceBand(PrimaryCoef(p)),
     direction |-> IF PrimaryCoef(p) > 0 THEN "positive" ELSE "negative"]

\* Whether the body of the loops appends a record for the pair
EmitsRecord(p, t) ==
    /\ p.n >= 3
    /\ ~SkipsPair(p, t)
    /\ PBelowLevel(PrimaryCoef(p), p.n)

RECURSIVE CorrelationsOf(_, _, _)
\* The two loops over the pairs prs
CorrelationsOf(prs, stats, t) ==
    IF prs = <<>> THEN <<>>
    ELSE IF EmitsRecord(stats[Head(prs)], t)
         THEN <<CorrelationRecord(Head(prs), stats[Head(prs)])>>
                  \o CorrelationsOf(Tail(prs), stats, t)
         ELSE CorrelationsOf(Tail(prs), stats, t)

RECURSIVE InsertByAbsCoef(_, _)
InsertByAbsCoef(s, x) ==
    IF s = <<>> THEN <<x>>
    ELSE IF Abs(Head(s).coefficient) >= Abs(x.coefficient)
         THEN <<Head(s)>> \o InsertByAbsCoef(Tail(s), x)
         ELSE <<x>> \o s

RECURSIVE SortByAbsCoef(_)
\* correlations.sort(key=abs(coefficient), reverse=True)
SortByAbsCoef(s) ==
    IF s = <<>> THEN <<>>
    ELSE InsertByAbsCoef(SortByAbsCoef(SubSeq(s, 1, Len(s) - 1)), s[Len(s)])

\* calculate_correlations
CalculateCorrelations ==
    /\ kpc = "called"
    /\ correlations' =
          IF numeric_cols < 2 THEN <<>>
          ELSE SortByAbsCoef(CorrelationsOf(ColumnPairs(numeric_cols),
                                            pair_stats, corr_threshold))
    /\ kpc' = "returned"
    /\ UNCHANGED <<corr_threshold, numeric_cols, pair_stats>>
    /\ UNCHANGED exceptCorr

InitCorr ==
    /\ corr_threshold \in Thresholds
    /\ numeric_cols \in 0..MaxNumCols
    /\ pair_stats \in [Range(ColumnPairs(numeric_cols)) -> PairSpace]
    /\ correlations = <<>>
    /\ kpc = "called"
    /\ IdleSelect
    /\ IdleInsights
    /\ IdleNarrative
    /\ IdlePipeline
    /\ IdlePreprocess
    /\ IdleRuns
    /\ IdleDetect
    /\ IdleClean
    /\ IdleTrend
    /\ IdleOutliers
    /\ IdleFreq
    /\ IdleConvert
    /\ IdleResponse
    /\ IdleFunnel
    /\ IdleWaterfall
    /\ IdleScore
    /\ IdleCombination
    /\ IdleParse

NextCorr == CalculateCorrelations

SpecCorr == InitCorr /\ [][NextCorr]_vars

\* The records of the returned list that are about the pair pr
RecordsOf(pr) ==
    {i \in 1..Len(correlations) :
        correlations[i].column1 = pr[1] /\ correlations[i].column2 = pr[2]}

\* "reaches the threshold"
Reaches(coef, t) == coef # NaN /\ Abs(coef) >= t

C15_NoWeakCoefficient ==
    kpc = "returned" =>
        \A i \in 1..Len(correlations) :
            Abs(correlations[i].coefficient) >= corr_threshold

----------------------------------------------------------------------------
(* OutlierDetector.detect_outliers (services/analyzer.py), for one column.  *)
(* The column is kept as the number of its non-null values and the sets of  *)
(* row indices the IQR test, the Z-score test and the Isolation Forest      *)
(* flag in it.                                                              *)

MaxRowIndex == 22    \* largest row index a method flags

\* "[:20]": the longest list of indices a method result keeps
IndexLimit == 20

\* Numbers of non-null values explored: below 4, below 50, and 50 or more
ValidCounts == {3, 30, 60, 240}

\* Runs of consecutive rows, the empty one included
RowRuns == {lo..hi : lo \in 1..MaxRowIndex, hi \in 0..MaxRowIndex}

\* What the Isolation Forest flags in the columns explored
ForestRuns == {{}, {1, 2}, {MaxRowIndex - 1, MaxRowIndex}}

\* The columns detect_outliers can meet.  Fewer than half of the values lie
\* outside the IQR fences, and at most one value in nine is more than three
\* standard deviations from the mean.
FlagSpace ==
    {f \in [valid : ValidCounts, iqr : {1..a : a \in 0..MaxRowIndex},
            zscore : RowRuns, ran_forest : BOOLEAN, forest : ForestRuns] :
        /\ f.valid < 4 => (f.iqr = {} /\ f.zscore = {})
        /\ Cardinality(f.iqr) * 2 < f.valid
        /\ Cardinality(f.zscore) * 9 <= f.valid
        /\ f.valid < 50 => ~f.ran_forest
        /\ ~f.ran_forest => f.forest = {}}

\* outlier_indices[:20]: the first IndexLimit flagged rows in row order
FirstIndices(rows) ==
    {i \in rows : Cardinality({j \in rows : j <= i}) <= IndexLimit}

\* result['indices'] of a method
MethodIndices(rows) == FirstIndices(rows)

\* consensus of _get_consensus_outliers
ConsensusSet(f) ==
    IF f.ran_forest
    THEN (MethodIndices(f.iqr) \cap MethodIndices(f.zscore))
            \cup (MethodIndices(f.iqr) \cap MethodIndices(f.forest))
            \cup (MethodIndices(f.zscore) \cap MethodIndices(f.forest))
    ELSE MethodIndices(f.iqr) \cap MethodIndices(f.zscore)

\* (variant) the percentage taken over the IQR indices alone
ConsensusPercentageOfIqr(f) ==
    (Cardinality(ConsensusSet(f)) * 10000)
        \div Max(Cardinality(MethodIndices(f.iqr)), 1)

\* 'percentage' of _get_consensus_outliers, in hundredths of a percent and
\* rounded down: len(consensus) / max(len(iqr indices) + len(zscore
\* indices), 1) * 100.  It is above 10000 exactly when the quotient is above
\* 100%, the denominator being far below 10000.
ConsensusPercentage(f) ==
    (Cardinality(ConsensusSet(f)) * 10000)
        \div Max(Cardinality(MethodIndices(f.iqr))
                    + Cardinality(MethodIndices(f.zscore)), 1)

\* _get_consensus_outliers: count, percentage and list(consensus)[:20]
GetConsensusOutliers(f) ==
    [count |-> Cardinality(ConsensusSet(f)),
     percentage |-> ConsensusPercentage(f),
     indices |-> FirstIndices(ConsensusSet(f))]

\* detect_outliers: the column has fewer than 4 values or no consensus
\* outlier, and gets no record
DetectOutliersSkips ==
    /\ opc = "called"
    /\ flagged.valid < 4 \/ GetConsensusOutliers(flagged).count = 0
    /\ outlier_list' = <<>>
    /\ opc' = "returned"
    /\ UNCHANGED flagged
    /\ UNCHANGED exceptOutliers

\* detect_outliers: the column gets a record with its consensus
DetectOutliersReports ==
    /\ opc = "called"
    /\ flagged.valid >= 4
    /\ GetConsensusOutliers(flagged).count > 0
    /\ outlier_list' = <<[column |-> "value",
                      consensus |-> GetConsensusOutliers(flagged)]>>
    /\ opc' = "returned"
    /\ UNCHANGED flagged
    /\ UNCHANGED exceptOutliers

InitOutliers ==
    /\ flagged \in FlagSpace
    /\ outlier_list = <<>>
    /\ opc = "called"
    /\ IdleSelect
    /\ IdleInsights
    /\ IdleNarrative
    /\ IdlePipeline
    /\ IdlePreprocess
    /\ IdleRuns
    /\ IdleDetect
    /\ IdleClean
    /\ IdleTrend
    /\ IdleCorr
    /\ IdleFreq
    /\ IdleConvert
    /\ IdleResponse
    /\ IdleFunnel
    /\ IdleWaterfall
    /\ IdleScore
    /\ IdleCombination
    /\ IdleParse

NextOutliers == DetectOutliersSkips \/ DetectOutliersReports

SpecOutliers == InitOutliers /\ [][NextOutliers]_vars

\* The rows at least two of the methods that ran flag
FlaggedByTwo ==
    (flagged.iqr \cap flagged.zscore)
        \cup (IF flagged.ran_forest
              THEN (flagged.iqr \cap flagged.forest)
                      \cup (flagged.zscore \cap flagged.forest)
              ELSE {})

----------------------------------------------------------------------------
(* FrequencyAnalyzer.analyze_frequencies (services/analyzer.py), for one    *)
(* categorical column.  The column is kept as its distinct values in the    *)
(* order of their first appearance, each with the number of rows holding    *)
(* it, and the number of rows without a value.  The i-th value to appear    *)
(* is named i.                                                              *)

MaxDistinct == 6     \* most distinct values of the column
MaxValueRows == 2    \* most rows holding one value
MaxNullRows == 1     \* most rows without a value

\* "value_counts.head(5)"
TopLimit == 5

\* value_counts() before sorting: a (value, count) pair per distinct value
CountPairs(rows) == [v \in 1..Len(rows) |-> [value |-> v, count |-> rows[v]]]

RECURSIVE InsertByCount(_, _)
InsertByCount(s, x) ==
    IF s = <<>> THEN <<x>>
    ELSE IF Head(s).count >= x.count
         THEN <<Head(s)>> \o InsertByCount(Tail(s), x)
         ELSE <<x>> \o s

RECURSIVE SortByCount(_)
\* The descending sort of value_counts(); values with equal counts stay in
\* the order of their first appearance
SortByCount(s) ==
    IF s = <<>> THEN <<>>
    ELSE InsertByCount(SortByCount(SubSeq(s, 1, Len(s) - 1)), s[Len(s)])

\* df[col].value_counts(): missing values are not counted
ValueCounts(rows) == SortByCount(CountPairs(rows))

\* mutant of TopCategories: one category fewer
TopFour(vc) == Take(vc, TopLimit - 1)

\* value_counts.head(5)
TopCategories(vc) == Take(vc, TopLimit)

RECURSIVE SumSeq(_)
SumSeq(s) == IF s = <<>> THEN 0 ELSE Head(s) + SumSeq(Tail(s))

\* The record analyze_frequencies appends for the column
FrequencyRecord(rows) ==
    [column |-> "category",
     unique_count |-> Len(rows),
     top_categories |-> TopCategories(ValueCounts(rows)),
     total_count |-> SumSeq(rows)]

\* analyze_frequencies
AnalyzeFrequencies ==
    /\ fpc = "called"
    /\ frequencies' = <<FrequencyRecord(value_rows)>>
    /\ fpc' = "returned"
    /\ UNCHANGED <<value_rows, null_rows>>
    /\ UNCHANGED exceptFreq

InitFreq ==
    /\ value_rows \in SeqsUpTo(1..MaxValueRows, MaxDistinct)
    /\ null_rows \in 0..MaxNullRows
    /\ frequencies = <<>>
    /\ fpc = "called"
    /\ IdleSelect
    /\ IdleInsights
    /\ IdleNarrative
    /\ IdlePipeline
    /\ IdlePreprocess
    /\ IdleRuns
    /\ IdleDetect
    /\ IdleClean
    /\ IdleTrend
    /\ IdleCorr
    /\ IdleOutliers
    /\ IdleConvert
    /\ IdleResponse
    /\ IdleFunnel
    /\ IdleWaterfall
    /\ IdleScore
    /\ IdleCombination
    /\ IdleParse

NextFreq == AnalyzeFrequencies

SpecFreq == InitFreq /\ [][NextFreq]_vars

\* C17: for a categorical column analyze_frequencies reports unique_count
\* equal to the number of distinct non-null values, and top_categories
\* holds the min(5, unique_count) most frequent values in non-increasing
\* order of count, each with the number of rows holding that value.
C17_TopCategories ==
    fpc = "returned" =>
        LET rec == frequencies[1]
            top == rec.top_categories
            named == {top[i].value : i \in 1..Len(top)}
        IN  /\ Len(frequencies) = 1
            /\ rec.unique_count = Len(value_rows)
            /\ Len(top) = Min(5, Len(value_rows))
            /\ Cardinality(named) = Len(top)
            /\ \A i \in 1..Len(top) :
                  /\ top[i].value \in 1..Len(value_rows)
                  /\ top[i].count = value_rows[top[i].value]
                  /\ \A j \in 1..Len(top) : i < j => top[i].count >= top[j].count
                  /\ \A v \in (1..Len(value_rows)) \ named :
                        value_rows[v] <= top[i].count

\* C17 witness: a column with six distinct values and a missing cell, whose
\* least frequent value was left out of the five reported.
C17_Witness ==
    /\ fpc = "returned"
    /\ Len(value_rows) = 6
    /\ null_rows = 1
    /\ Len(frequencies[1].top_categories) = 5
    /\ \E v \in 1..6 :
          /\ value_rows[v] = 1
          /\ \A i \in 1..5 : frequencies[1].top_categories[i].value # v
          /\ frequencies[1].top_categories[1].count = 2

----------------------------------------------------------------------------
(* Response conversion: main.py convert_numpy_types.                       *)
(* A Python object is a record: tag names its type (int, float, bool, str, *)
(* None, ndarray, dict, list, tuple), numpy says whether it is a numpy     *)
(* object, val is a scalar's value, keys a dict's keys in insertion order  *)
(* and items the values of a dict, the members of a list or tuple, or the  *)
(* elements of a one-dimensional numeric array.                            *)

\* Deepest nesting of dicts, lists and tuples in the modelled objects
MaxDepth == 2

\* Most members of an innermost container and most elements of an array
MaxItems == 2

ScalarTags == {"int", "float", "bool"}

ContainerTags == {"dict", "list", "tuple"}

KeyNames == <<"a", "b", "c", "d">>

Leaf(tag, numpy, val) ==
    [tag |-> tag, numpy |-> numpy, val |-> val, keys |-> <<>>, items |-> <<>>]

Container(tag, items) ==
    [tag |-> tag, numpy |-> FALSE, val |-> 0,
     keys |-> IF tag = "dict" THEN SubSeq(KeyNames, 1, Len(items)) ELSE <<>>,
     items |-> items]

\* The value of the scalars of each type: 42, 3.14 (in hundredths), True
ScalarValue(tag) ==
    CASE tag = "int" -> 42
      [] tag = "float" -> 314
      [] OTHER -> 1

\* np.array([...]) of one numeric dtype
NdArray(dtype, n) ==
    [tag |-> "ndarray", numpy |-> TRUE, val |-> 0, keys |-> <<>>,
     items |-> [i \in 1..n |-> Leaf(dtype, TRUE, ScalarValue(dtype))]]

\* Scalars (native and numpy), strings, None and numeric arrays
Atoms ==
    {Leaf(t, n, ScalarValue(t)) : t \in ScalarTags, n \in BOOLEAN}
    \cup {Leaf("str", FALSE, 0), NoneValue}
    \cup {NdArray(t, n) : t \in ScalarTags, n \in 0..MaxItems}

\* Objects nested up to d containers deep; only the innermost containers
\* hold more than one member
RECURSIVE ObjectsAt(_)
ObjectsAt(d) ==
    IF d = 0 THEN Atoms
    ELSE LET inner == ObjectsAt(d - 1)
             width == IF d = 1 THEN MaxItems ELSE 1
         IN  inner \cup {Container(t, s) : t \in ContainerTags,
                                           s \in SeqsUpTo(inner, width)}

\* isinstance(obj, np.integer / np.floating / np.bool_)
IsNumpyScalar(obj) == obj.tag \in ScalarTags /\ obj.numpy

\* int(obj), float(obj), bool(obj)
ToNative(obj) == Leaf(obj.tag, FALSE, obj.val)

\* obj.tolist() of a one-dimensional numeric array
ToList(obj) ==
    Container("list", [i \in 1..Len(obj.items) |-> ToNative(obj.items[i])])

\* (variant) the converter without its tuple branch
RecursesIntoDictAndList(obj) == obj.tag \in {"dict", "list"}

\* isinstance(obj, dict), isinstance(obj, list), isinstance(obj, tuple)
RecursesInto(obj) == obj.tag \in {"dict", "list", "tuple"}

RECURSIVE ConvertNumpyTypes(_)
ConvertNumpyTypes(obj) ==
    IF IsNumpyScalar(obj) THEN ToNative(obj)
    ELSE IF obj.tag = "ndarray" THEN ToList(obj)
    ELSE IF RecursesInto(obj)
         THEN [obj EXCEPT !.items =
                  [i \in 1..Len(obj.items) |-> ConvertNumpyTypes(obj.items[i])]]
    ELSE obj

ConvertObject ==
    /\ jpc = "called"
    /\ converted_obj' = ConvertNumpyTypes(np_obj)
    /\ jpc' = "returned"
    /\ UNCHANGED np_obj
    /\ UNCHANGED exceptConvert

InitConvert ==
    /\ np_obj \in ObjectsAt(MaxDepth)
    /\ converted_obj = NoneValue
    /\ jpc = "called"
    /\ IdleSelect
    /\ IdleInsights
    /\ IdleNarrative
    /\ IdlePipeline
    /\ IdlePreprocess
    /\ IdleRuns
    /\ IdleDetect
    /\ IdleClean
    /\ IdleTrend
    /\ IdleCorr
    /\ IdleOutliers
    /\ IdleFreq
    /\ IdleResponse
    /\ IdleFunnel
    /\ IdleWaterfall
    /\ IdleScore
    /\ IdleCombination
    /\ IdleParse

NextConvert == ConvertObject

SpecConvert == InitConvert /\ [][NextConvert]_vars

\* Some leaf reached through dicts, lists and tuples is a numpy object
RECURSIVE HasNumpyLeaf(_)
HasNumpyLeaf(obj) ==
    IF obj.tag \in ContainerTags
    THEN \E i \in 1..Len(obj.items) : HasNumpyLeaf(obj.items[i])
    ELSE obj.numpy

\* res has the structure of obj: the same dict keys, the same sequence
\* lengths and order, native values as they were, every numpy scalar as the
\* native value of its type and every array as the list of its elements
RECURSIVE SameStructure(_, _)
SameStructure(obj, res) ==
    IF obj.tag \in ContainerTags
    THEN /\ res.tag = obj.tag
         /\ res.keys = obj.keys
         /\ Len(res.items) = Len(obj.items)
         /\ \A i \in 1..Len(obj.items) : SameStructure(obj.items[i], res.items[i])
    ELSE IF obj.tag = "ndarray"
    THEN /\ res.tag = "list"
         /\ Len(res.items) = Len(obj.items)
         /\ \A i \in 1..Len(obj.items) :
               res.items[i] = Leaf(obj.items[i].tag, FALSE, obj.items[i].val)
    ELSE IF obj.numpy
    THEN res = Leaf(obj.tag, FALSE, obj.val)
    ELSE res = obj

----------------------------------------------------------------------------
(* The correlation matrix on its way into the response:                    *)
(* analyzer.py get_correlation_matrix, visualizer.py                       *)
(* _create_heatmap_charts, main.py analyze_data.                           *)
(* The cleaned table is seen through what the code reads of it: how many   *)
(* numeric columns it has, which of them hold a single value, and for each *)
(* pair of columns the number of rows where both are present together with *)
(* the coefficients of those rows.  The table has 10 rows, so it passes    *)
(* validate_data.  Coefficients and p-values are in hundredths.            *)

\* Most numeric columns of the table
MaxMatrixCols == 3

\* Coefficients of a pair of columns that both vary
MatrixCoefs == {-80, 30}

\* Two-sided p-value of pearsonr over 10 rows (8 degrees of freedom)
PValueOf(coef) == IF Abs(coef) >= 80 THEN 1 ELSE 40

\* A pair of columns: no row holds both (each column is missing in more
\* than 30% of the rows, which handle_missing_values leaves as they are), or
\* all 10 rows hold both
MatrixPairSpace ==
    {[rows |-> 0, pearson |-> NaN, spearman |-> NaN]}
    \cup [rows : {10}, pearson : MatrixCoefs, spearman : MatrixCoefs]

MatrixPairs(n) == {p \in (1..n) \X (1..n) : p[1] < p[2]}

PairOf(i, j) == IF i < j THEN <<i, j>> ELSE <<j, i>>

\* A dict with the given keys
Dict(keys, items) ==
    [tag |-> "dict", numpy |-> FALSE, val |-> 0, keys |-> keys, items |-> items]

\* A nested list of native floats, as ndarray.tolist() returns it
FloatMatrix(n, entry(_, _)) ==
    Container("list",
        [i \in 1..n |->
            Container("list", [j \in 1..n |-> Leaf("float", FALSE, entry(i, j))])])

\* df[numeric_cols].corr(method)[i][j]: NaN when a column has no variance
\* over the rows used or when no row holds both columns
Corr(const, pairs, i, j, method) ==
    IF i = j THEN (IF i \in const THEN NaN ELSE 100)
    ELSE IF i \in const \/ j \in const \/ pairs[PairOf(i, j)].rows = 0 THEN NaN
    ELSE IF method = "pearson" THEN pairs[PairOf(i, j)].pearson
    ELSE pairs[PairOf(i, j)].spearman

\* p_value_matrix[i, j]: 1 unless the pair has 3 jointly present rows, then
\* the p-value of pearsonr, which is NaN for a constant column
PValueEntry(const, pairs, i, j) ==
    IF i = j THEN 100
    ELSE IF pairs[PairOf(i, j)].rows < 3 THEN 100
    ELSE IF i \in const \/ j \in const THEN NaN
    ELSE PValueOf(pairs[PairOf(i, j)].pearson)

MatrixKeys == <<"columns", "pearson_matrix", "spearman_matrix", "p_value_matrix">>

EmptyList == Container("list", <<>>)

GetCorrelationMatrix(n, const, pairs) ==
    IF n < 2
    THEN Dict(MatrixKeys, <<EmptyList, EmptyList, EmptyList, EmptyList>>)
    ELSE LET pearson(i, j) == Corr(const, pairs, i, j, "pearson")
             spearman(i, j) == Corr(const, pairs, i, j, "spearman")
             p_value(i, j) == PValueEntry(const, pairs, i, j)
         IN  Dict(MatrixKeys,
                  <<Container("list", [i \in 1..n |-> Leaf("str", FALSE, i)]),
                    FloatMatrix(n, pearson),
                    FloatMatrix(n, spearman),
                    FloatMatrix(n, p_value)>>)

\* "abs(matrix[i][j]) > 0.7": false for NaN
IsStrong(leaf) == leaf.val # NaN /\ Abs(leaf.val) > 70

HeatmapScore == 90

\* _create_heatmap_charts; the chart keeps the fields that hold numbers
CreateHeatmapCharts(n, correlation_matrix) ==
    LET matrix == correlation_matrix.items[2].items
        columns == correlation_matrix.items[1].items
        cell(k) ==
            LET i == ((k - 1) \div Len(columns)) + 1
                j == ((k - 1) % Len(columns)) + 1
            IN  Dict(<<"x", "y", "value">>,
                     <<columns[j], columns[i],
                       Leaf("float", FALSE, matrix[i].items[j].val)>>)
        strong == \E i \in 1..Len(matrix) : \E j \in 1..Len(matrix[i].items) :
                      i # j /\ IsStrong(matrix[i].items[j])
    IN  IF n < 3 THEN <<>>
        ELSE IF matrix = <<>> \/ columns = <<>> THEN <<>>
        ELSE <<Dict(<<"type", "data", "score", "data_characteristics">>,
                    <<Leaf("str", FALSE, 0),
                      Container("list",
                          [k \in 1..(Len(columns) * Len(columns)) |-> cell(k)]),
                      Leaf("float", FALSE, HeatmapScore),
                      Dict(<<"num_variables", "has_strong_correlations">>,
                           <<Leaf("int", FALSE, Len(columns)),
                             Leaf("bool", FALSE, IF strong THEN 1 ELSE 0)>>)>>)>>

\* StatisticalAnalyzer.analyze: the correlation matrix of the cleaned table
AnalyzeMatrix ==
    /\ xpc = "analyzing"
    /\ analysis_result' = GetCorrelationMatrix(matrix_cols, constant_cols, pair_values)
    /\ xpc' = "visualizing"
    /\ UNCHANGED <<matrix_cols, constant_cols, pair_values, heatmap_charts, response>>
    /\ UNCHANGED exceptResponse

\* select_visualizations: the heatmap, a priority type, is among the charts
\* selected whenever it was created
SelectHeatmap ==
    /\ xpc = "visualizing"
    /\ heatmap_charts' = CreateHeatmapCharts(matrix_cols, analysis_result)
    /\ xpc' = "converting"
    /\ UNCHANGED <<matrix_cols, constant_cols, pair_values, analysis_result, response>>
    /\ UNCHANGED exceptResponse

\* analyze_data: convert_numpy_types over analysis and charts, then return
ReturnResponse ==
    /\ xpc = "converting"
    /\ response' = [statistics |-> ConvertNumpyTypes(analysis_result),
                    charts |-> ConvertNumpyTypes(Container("list", heatmap_charts))]
    /\ xpc' = "returned"
    /\ UNCHANGED <<matrix_cols, constant_cols, pair_values, analysis_result, heatmap_charts>>
    /\ UNCHANGED exceptResponse

InitResponse ==
    /\ matrix_cols \in 0..MaxMatrixCols
    /\ constant_cols \in SUBSET (1..matrix_cols)
    /\ pair_values \in [MatrixPairs(matrix_cols) -> MatrixPairSpace]
    /\ analysis_result = NoneValue
    /\ heatmap_charts = <<>>
    /\ response = NoResponse
    /\ xpc = "analyzing"
    /\ IdleSelect
    /\ IdleInsights
    /\ IdleNarrative
    /\ IdlePipeline
    /\ IdlePreprocess
    /\ IdleRuns
    /\ IdleDetect
    /\ IdleClean
    /\ IdleTrend
    /\ IdleCorr
    /\ IdleOutliers
    /\ IdleFreq
    /\ IdleConvert
    /\ IdleFunnel
    /\ IdleWaterfall
    /\ IdleScore
    /\ IdleCombination
    /\ IdleParse

NextResponse ==
    \/ AnalyzeMatrix
    \/ SelectHeatmap
    \/ ReturnResponse

SpecResponse == InitResponse /\ [][NextResponse]_vars

\* Every numeric leaf of obj is a finite number
RECURSIVE AllFinite(_)
AllFinite(obj) ==
    IF obj.tag \in ContainerTags \cup {"ndarray"}
    THEN \A i \in 1..Len(obj.items) : AllFinite(obj.items[i])
    ELSE obj.tag \in ScalarTags => obj.val # NaN

\* C19: for every table that passes validation, every numeric leaf of the
\* statistics and of the charts returned by the pipeline is a finite number,
\* never NaN or infinity.
C19_FiniteLeaves ==
    xpc = "returned" =>
        /\ AllFinite(response.statistics)
        /\ AllFinite(response.charts)

----------------------------------------------------------------------------
(* Claims about the insight list as generate_insights builds it *)

\* C21: a 'non-normal distribution' insight is added only while fewer than 5
\* insights exist so far in the generation run, counting the trend,
\* correlation, outlier and distribution insights already extracted: in the
\* list built before ranking, no such insight stands after five others.
C21_NonNormalWhileFewerThanFive ==
    ipc = "returned" =>
        \A k \in 1..Len(insights) :
            insights[k].title = "non_normal" => k - 1 < 5

----------------------------------------------------------------------------
(* Claims about the consensus percentage of _get_consensus_outliers *)

\* Any three small index sets handed to _get_consensus_outliers, with or
\* without an Isolation Forest result
AnyResults ==
    [valid : {60}, iqr : SUBSET (1..3), zscore : SUBSET (1..3),
     ran_forest : BOOLEAN, forest : SUBSET (1..3)]

\* C22 (as stated): for some combination of IQR, Z-score and Isolation
\* Forest results, that of the column at hand or any other, the consensus
\* percentage exceeds 100%.
C22_CanExceedHundred ==
    \E f \in AnyResults \cup {flagged} : ConsensusPercentage(f) > 10000

\* C22 (amended): the consensus percentage never exceeds 100%, whatever the
\* three methods flag: every consensus row is an IQR or a Z-score row, so
\* the consensus count is at most the sum of the two index counts.
C22_AtMostHundred ==
    opc = "returned" =>
        \A k \in 1..Len(outlier_list) :
            /\ outlier_list[k].consensus.percentage <= 10000
            /\ outlier_list[k].consensus.count
                  <= Cardinality(MethodIndices(flagged.iqr))
                     + Cardinality(MethodIndices(flagged.zscore))

\* C22 witness: the Isolation Forest ran and confirmed every row IQR
\* flagged while Z-score flagged none; the percentage is exactly 100%.
C22_Witness ==
    /\ opc = "returned"
    /\ Len(outlier_list) = 1
    /\ flagged.ran_forest
    /\ flagged.zscore = {}
    /\ flagged.iqr = flagged.forest
    /\ outlier_list[1].consensus.percentage = 10000

----------------------------------------------------------------------------
(* Funnel charts: visualizer.py _create_funnel_charts, for a table with    *)
(* one categorical column.  The column is seen through its name (does it   *)
(* hold one of the stage keywords) and its value counts in stage order.    *)

\* Most stages of the columns explored, besides one column of eight stages
MaxStages == 4

\* Rows per stage explored
StageCounts == {1, 7, 10}

\* One more stage than a funnel may have
TooManyStages == 8

StageSpace ==
    {s \in SeqsUpTo(StageCounts, MaxStages) : Len(s) >= 2}
    \cup {[i \in 1..TooManyStages |-> 10]}

\* "df[cat_col].nunique() >= 3 and df[cat_col].nunique() <= 7"
StageCountInRange(counts) == Len(counts) >= 3 /\ Len(counts) <= 7

\* "all(values[i] >= values[i+1] * 0.7 for i in range(len(values)-1))"
IsDecreasing(values) ==
    \A i \in 1..(Len(values) - 1) : 10 * values[i] >= 7 * values[i + 1]

\* The funnel chart; score in tenths
FunnelChart(counts) ==
    [type |-> "funnel",
     data |-> counts,
     score |-> IF IsDecreasing(counts) THEN 70 ELSE 50,
     data_characteristics |->
         [num_stages |-> Len(counts), is_decreasing |-> IsDecreasing(counts)]]

\* _create_funnel_charts: the column is no stage column or has fewer than 3
\* or more than 7 stages
CreateFunnelSkips ==
    /\ upc = "called"
    /\ ~stage_keyword \/ ~StageCountInRange(stage_counts)
    /\ funnel_charts' = <<>>
    /\ upc' = "returned"
    /\ UNCHANGED <<stage_keyword, stage_counts>>
    /\ UNCHANGED exceptFunnel

\* _create_funnel_charts: charts is empty when the column is reached, so the
\* chart is appended whatever is_decreasing says
CreateFunnelAppends ==
    /\ upc = "called"
    /\ stage_keyword
    /\ StageCountInRange(stage_counts)
    /\ IsDecreasing(stage_counts) \/ Len(funnel_charts) = 0
    /\ funnel_charts' = Append(funnel_charts, FunnelChart(stage_counts))
    /\ upc' = "returned"
    /\ UNCHANGED <<stage_keyword, stage_counts>>
    /\ UNCHANGED exceptFunnel

InitFunnel ==
    /\ stage_keyword \in BOOLEAN
    /\ stage_counts \in StageSpace
    /\ funnel_charts = <<>>
    /\ upc = "called"
    /\ IdleSelect
    /\ IdleInsights
    /\ IdleNarrative
    /\ IdlePipeline
    /\ IdlePreprocess
    /\ IdleRuns
    /\ IdleDetect
    /\ IdleClean
    /\ IdleTrend
    /\ IdleCorr
    /\ IdleOutliers
    /\ IdleFreq
    /\ IdleConvert
    /\ IdleResponse
    /\ IdleWaterfall
    /\ IdleScore
    /\ IdleCombination
    /\ IdleParse

NextFunnel ==
    \/ CreateFunnelSkips
    \/ CreateFunnelAppends

SpecFunnel == InitFunnel /\ [][NextFunnel]_vars

\* C23: a funnel chart's is_decreasing flag (and hence base score 7.0
\* instead of 5.0) is set exactly when, for every pair of successive stages
\* in stage order, the later stage's count is no larger than the earlier
\* one's and at least 70% of it.
C23_DecreasingWithinSeventy ==
    upc = "returned" =>
        \A k \in 1..Len(funnel_charts) :
            LET c == funnel_charts[k]
                shrinks ==
                    \A i \in 1..(Len(stage_counts) - 1) :
                        /\ stage_counts[i + 1] <= stage_counts[i]
                        /\ 10 * stage_counts[i + 1] >= 7 * stage_counts[i]
            IN  /\ c.data_characteristics.is_decreasing <=> shrinks
                /\ c.score = IF shrinks THEN 70 ELSE 50

----------------------------------------------------------------------------
(* Waterfall charts: visualizer.py _create_waterfall_charts, for a table   *)
(* with one numeric column.  The table is seen through the signs of the    *)
(* column's values, whether a categorical column exists, and the sums of   *)
(* the numeric column per category in descending order.  Sums are whole    *)
(* numbers, for which the float additions of the code are exact.           *)

\* Most categories of the tables explored, besides one table of nine
MaxGroups == 4

\* Sums per category explored
GroupSums == {-4, -1, 0, 3, 6}

\* One more category than a waterfall may have
TooManyGroups == 9

\* sort_values(ascending=False)
IsSortedDescending(s) == \A i \in 1..(Len(s) - 1) : s[i] >= s[i + 1]

GroupedSpace ==
    {s \in SeqsUpTo(GroupSums, MaxGroups) : Len(s) >= 1 /\ IsSortedDescending(s)}
    \cup {[i \in 1..TooManyGroups |-> 3]}

\* (variant) the running total replaced by the last value
RunningTotalLast(cumulative, value) == value

\* "cumulative += value"
RunningTotal(cumulative, value) == cumulative + value

RECURSIVE WaterfallBars(_, _)
\* The loop over grouped.items(), then the total bar
WaterfallBars(sums, cumulative) ==
    IF sums = <<>>
    THEN <<[name |-> "Total", value |-> cumulative, start |-> 0,
            end |-> cumulative, isTotal |-> TRUE]>>
    ELSE <<[name |-> "category", value |-> Head(sums), start |-> cumulative,
            end |-> cumulative + Head(sums), isTotal |-> FALSE]>>
         \o WaterfallBars(Tail(sums), RunningTotal(cumulative, Head(sums)))

\* The conditions under which the chart is built
BuildsWaterfall(sg, cat, sums) ==
    /\ sg.positive /\ sg.negative
    /\ cat
    /\ Len(sums) <= 8
    /\ Len(sums) >= 3

\* _create_waterfall_charts: no chart
CreateWaterfallSkips ==
    /\ wpc = "called"
    /\ ~BuildsWaterfall(signs, has_category, grouped)
    /\ waterfall_charts' = <<>>
    /\ wpc' = "returned"
    /\ UNCHANGED <<signs, has_category, grouped>>
    /\ UNCHANGED exceptWaterfall

\* _create_waterfall_charts: the chart of the first numeric column
CreateWaterfallAppends ==
    /\ wpc = "called"
    /\ BuildsWaterfall(signs, has_category, grouped)
    /\ waterfall_charts' =
          <<[type |-> "waterfall", data |-> WaterfallBars(grouped, 0),
             score |-> 75,
             data_characteristics |->
                 [num_categories |-> Len(grouped), has_negatives |-> signs.negative]]>>
    /\ wpc' = "returned"
    /\ UNCHANGED <<signs, has_category, grouped>>
    /\ UNCHANGED exceptWaterfall

InitWaterfall ==
    /\ signs \in [positive : BOOLEAN, negative : BOOLEAN]
    /\ has_category \in BOOLEAN
    /\ grouped \in GroupedSpace
    /\ waterfall_charts = <<>>
    /\ wpc = "called"
    /\ IdleSelect
    /\ IdleInsights
    /\ IdleNarrative
    /\ IdlePipeline
    /\ IdlePreprocess
    /\ IdleRuns
    /\ IdleDetect
    /\ IdleClean
    /\ IdleTrend
    /\ IdleCorr
    /\ IdleOutliers
    /\ IdleFreq
    /\ IdleConvert
    /\ IdleResponse
    /\ IdleFunnel
    /\ IdleScore
    /\ IdleCombination
    /\ IdleParse

NextWaterfall ==
    \/ CreateWaterfallSkips
    \/ CreateWaterfallAppends

SpecWaterfall == InitWaterfall /\ [][NextWaterfall]_vars

\* C24: in every waterfall chart the first bar starts at 0, every later
\* non-total bar starts where the previous bar ended, each bar's end equals
\* its start plus its value, and the final 'Total' bar has start 0 and value
\* and end equal to the sum of all group values.
C24_RunningTotals ==
    wpc = "returned" =>
        \A k \in 1..Len(waterfall_charts) :
            LET bars == waterfall_charts[k].data
                n == Len(bars) - 1
            IN  /\ n = Len(grouped)
                /\ bars[1].start = 0
                /\ \A i \in 1..n :
                      /\ ~bars[i].isTotal
                      /\ bars[i].value = grouped[i]
                      /\ bars[i].end = bars[i].start + bars[i].value
                      /\ i > 1 => bars[i].start = bars[i - 1].end
                /\ bars[n + 1].isTotal
                /\ bars[n + 1].start = 0
                /\ bars[n + 1].value = SumSeq(grouped)
                /\ bars[n + 1].end = SumSeq(grouped)

\* C24 witness: a waterfall over four categories, the last with a negative
\* sum, whose total bar ends at 4.
C24_Witness ==
    /\ wpc = "returned"
    /\ grouped = <<6, 3, -1, -4>>
    /\ Len(waterfall_charts) = 1
    /\ waterfall_charts[1].data[4].start = 8
    /\ waterfall_charts[1].data[4].end = 4
    /\ waterfall_charts[1].data[5].isTotal
    /\ waterfall_charts[1].data[5].end = 4

----------------------------------------------------------------------------
(* Chart scoring alone: visualizer.py _score_and_rank_charts over one      *)
(* candidate with any combination of data characteristics and any list of  *)
(* up to four insights.                                                    *)

\* Longest insight list explored by the scoring
MaxScoreInsights == 4

\* The data characteristics the scoring reads
BoostFlags ==
    {"has_outliers", "has_strong_correlations", "has_seasonal", "is_decreasing"}

\* Candidates: base score in tenths, the columns _get_chart_columns finds,
\* and the truthy data characteristics
ScorePool ==
    [type : {"heatmap", "funnel", "line"}, title : {"A"}, score : {50, 70},
     cols : {{}, {"sales"}, {"sales", "profit"}}, chars : SUBSET BoostFlags]

\* Insights: significance in hundredths and the columns
\* _get_insight_columns finds
ScoreInsightPool ==
    {[significance |-> 95, cols |-> {"sales"}],
     [significance |-> 80, cols |-> {"profit"}],
     [significance |-> 60, cols |-> {"cost"}]}

\* _score_and_rank_charts
ScoreCharts ==
    /\ gpc = "called"
    /\ score_result' = ScoreAndRankCharts(score_input, score_insights)
    /\ gpc' = "returned"
    /\ UNCHANGED <<score_input, score_insights>>
    /\ UNCHANGED exceptScore

InitScore ==
    /\ score_input \in [1..1 -> ScorePool]
    /\ score_insights \in SeqsUpTo(ScoreInsightPool, MaxScoreInsights)
    /\ score_result = <<>>
    /\ gpc = "called"
    /\ IdleSelect
    /\ IdleInsights
    /\ IdleNarrative
    /\ IdlePipeline
    /\ IdlePreprocess
    /\ IdleRuns
    /\ IdleDetect
    /\ IdleClean
    /\ IdleTrend
    /\ IdleCorr
    /\ IdleOutliers
    /\ IdleFreq
    /\ IdleConvert
    /\ IdleResponse
    /\ IdleFunnel
    /\ IdleWaterfall
    /\ IdleCombination
    /\ IdleParse

NextScore == ScoreCharts

SpecScore == InitScore /\ [][NextScore]_vars

\* Twice the significance (in thousandths) of the j-th insight if it is one
\* of the first three and shares a column with the chart, else 0
BoostOfInsight(chart, j) ==
    IF /\ j <= 3
       /\ j <= Len(score_insights)
       /\ chart.cols \cap score_insights[j].cols # {}
    THEN 20 * score_insights[j].significance
    ELSE 0

\* C25: for every candidate chart, composite_score equals base score times
\* the chart type's weight, plus 2 * significance summed over those of the
\* first three insights whose columns intersect the chart's columns, plus
\* the characteristic boosts (has_outliers 0.5, has_strong_correlations 1.0,
\* has_seasonal 0.5, is_decreasing 0.5).
C25_CompositeScore ==
    gpc = "returned" =>
        /\ Len(score_result) = Len(score_input)
        /\ \A k \in 1..Len(score_result) :
              LET c == score_result[k]
                  flags == c.chars \cap BoostFlags
              IN  c.composite_score =
                      c.score * chart_type_weights[c.type]
                      + BoostOfInsight(c, 1) + BoostOfInsight(c, 2)
                      + BoostOfInsight(c, 3)
                      + 500 * Cardinality(flags)
                      + (IF "has_strong_correlations" \in flags THEN 500 ELSE 0)

\* C25 witness: a funnel flagged is_decreasing that refers to sales and
\* profit was scored against four insights, of which the first and the
\* third share a column with it and the fourth, beyond the top three, too.
C25_Witness ==
    /\ gpc = "returned"
    /\ Len(score_insights) = 4
    /\ score_insights[1].cols = {"sales"}
    /\ score_insights[2].cols = {"cost"}
    /\ score_insights[3].cols = {"profit"}
    /\ score_insights[4].cols = {"sales"}
    /\ score_result[1].type = "funnel"
    /\ score_result[1].score = 70
    /\ score_result[1].cols = {"sales", "profit"}
    /\ score_result[1].chars = {"is_decreasing"}
    /\ score_result[1].composite_score = 70 * 85 + 1900 + 1600 + 500

----------------------------------------------------------------------------
(* Combination charts: visualizer.py _create_combination_charts.  The      *)
(* table is seen through whether it has a datetime column, how many        *)
(* numeric columns it has, and the standard deviations of the columns      *)
(* whose trend is strong or moderate, in the order of analysis['trends'].  *)

\* Most columns with a strong or moderate trend
MaxTrending == 3

\* Standard deviations explored; a column with a trend is not constant
Scales == {1, 2, 7}

\* "scale1 > 0 and scale2 > 0" and "scale_ratio > 3" for two columns
ScalesDiffer(scale1, scale2) ==
    /\ scale1 > 0
    /\ scale2 > 0
    /\ Max(scale1, scale2) > 3 * Min(scale1, scale2)

\* The conditions under which the chart is built: a datetime column, two
\* numeric columns, two trending metrics, and the first two of them differ
BuildsCombination(dt, n, scales) ==
    /\ dt
    /\ n >= 2
    /\ Len(scales) >= 2
    /\ ScalesDiffer(scales[1], scales[2])

\* _create_combination_charts: no chart
CreateCombinationSkips ==
    /\ bpc = "called"
    /\ ~BuildsCombination(has_datetime, numeric_count, trend_scales)
    /\ combination_charts' = <<>>
    /\ bpc' = "returned"
    /\ UNCHANGED <<has_datetime, numeric_count, trend_scales>>
    /\ UNCHANGED exceptCombination

\* _create_combination_charts: the chart of the first two trending metrics
CreateCombinationAppends ==
    /\ bpc = "called"
    /\ BuildsCombination(has_datetime, numeric_count, trend_scales)
    /\ combination_charts' =
          <<[type |-> "combination", score |-> 95, metrics |-> <<1, 2>>,
             data_characteristics |-> [num_metrics |-> 2]]>>
    /\ bpc' = "returned"
    /\ UNCHANGED <<has_datetime, numeric_count, trend_scales>>
    /\ UNCHANGED exceptCombination

\* The trending columns are distinct numeric columns of the table
InitCombination ==
    /\ has_datetime \in BOOLEAN
    /\ trend_scales \in SeqsUpTo(Scales, MaxTrending)
    /\ numeric_count \in Len(trend_scales)..MaxTrending
    /\ combination_charts = <<>>
    /\ bpc = "called"
    /\ IdleSelect
    /\ IdleInsights
    /\ IdleNarrative
    /\ IdlePipeline
    /\ IdlePreprocess
    /\ IdleRuns
    /\ IdleDetect
    /\ IdleClean
    /\ IdleTrend
    /\ IdleCorr
    /\ IdleOutliers
    /\ IdleFreq
    /\ IdleConvert
    /\ IdleResponse
    /\ IdleFunnel
    /\ IdleWaterfall
    /\ IdleScore
    /\ IdleParse

NextCombination ==
    \/ CreateCombinationSkips
    \/ CreateCombinationAppends

SpecCombination == InitCombination /\ [][NextCombination]_vars

\* C26: a combination chart is generated exactly when a datetime column
\* exists and, among the numeric columns with a strong or moderate trend,
\* there are two whose (positive) standard deviations differ by a ratio
\* greater than 3.
C26_CombinationWhenScalesDiffer ==
    bpc = "returned" =>
        (Len(combination_charts) > 0
            <=> /\ has_datetime
                /\ \E i \in 1..Len(trend_scales) : \E j \in 1..Len(trend_scales) :
                      /\ i < j
                      /\ trend_scales[i] > 0
                      /\ trend_scales[j] > 0
                      /\ Max(trend_scales[i], trend_scales[j])
                            > 3 * Min(trend_scales[i], trend_scales[j]))

----------------------------------------------------------------------------
(* Claims about the order of the job-status updates of analyze_data,      *)
(* checked under SpecPipeline                                              *)

\* The statuses that end a job
TerminalStatuses == {"completed", "failed"}

\* C27: within one analyze request exactly one terminal job status is
\* written: once the status has been set to 'completed' it is never
\* afterwards set to 'failed', 'failed' is written at most once, and a
\* request that has ended has written one terminal status.
C27_OneTerminalStatus ==
    LET n == Len(status_calls)
        terminal == {i \in 1..n : status_calls[i].status \in TerminalStatuses}
    IN  /\ Cardinality({i \in 1..n : status_calls[i].status = "failed"}) <= 1
        /\ \A i \in 1..n : \A j \in 1..n :
              (i < j /\ status_calls[i].status = "completed")
                  => status_calls[j].status # "failed"
        /\ apc \in {"returned", "raised"} => Cardinality(terminal) = 1

\* The updates of a request whose every stage succeeds, in order
StageUpdates ==
    <<StatusCall("processing", "analyzing", 10, "None"),
      StatusCall("processing", "analyzing", 30, "None"),
      StatusCall("processing", "generating_narrative", 50, "None"),
      StatusCall("processing", "creating_visualizations", 80, "None"),
      StatusCall("completed", "None", 100, "None")>>

\* How many stages have been entered at a position of analyze_data; in an
\* except block, the stage that failed
StagesEntered ==
    CASE apc = "stage1" -> 0
      [] apc \in {"preprocess", "stage2"} -> 1
      [] apc \in {"analyze", "stage3"} -> 2
      [] apc \in {"narrative_init", "narrative", "stage4"} -> 3
      [] apc \in {"visualize", "stage5"} -> 4
      [] apc \in {"respond", "returned"} -> 5
      [] OTHER ->
            CASE failed_stage = "PREPROCESSING_ERROR" -> 1
              [] failed_stage = "ANALYSIS_ERROR" -> 2
              [] failed_stage = "NARRATIVE_GENERATION_ERROR" -> 3
              [] failed_stage = "VISUALIZATION_ERROR" -> 4
              [] OTHER -> 5

\* The updates written so far are those of the stages entered, in stage
\* order, followed by 'failed' alone once an except block has reported
UpdatesInStageOrder ==
    LET n == Len(status_calls)
        k == StagesEntered
    IN  /\ n \in {k, k + 1}
        /\ \A i \in 1..k : status_calls[i] = StageUpdates[i]
        /\ n = k + 1 => (apc = "raised" /\ status_calls[n].status = "failed")
        /\ k >= 4 => gen_calls = 1
        /\ k >= 5 => viz_calls = 1
        /\ job.progress \in {NewJob.progress} \cup {StageUpdates[i].progress : i \in 1..k}

\* C28: the job-status updates occur only in the order processing/10,
\* processing/30, processing/50, processing/80, completed/100: a stage's
\* update is written only after every earlier stage succeeded, no
\* 'processing' update follows a 'failed' one, and the progress reported in
\* the job document never decreases.
C28_StatusOrder ==
    /\ [](UpdatesInStageOrder)
    /\ [][job'.progress >= job.progress]_vars

\* C28 witness: the visualization stage failed after three stages had
\* succeeded; four 'processing' updates and one 'failed' update were
\* written and the job document still shows progress 80.
C28_Witness ==
    /\ apc = "raised"
    /\ failed_stage = "VISUALIZATION_ERROR"
    /\ Len(status_calls) = 5
    /\ status_calls[5].status = "failed"
    /\ job.status = "failed"
    /\ job.progress = 80

----------------------------------------------------------------------------
(* Claims about the charts the diverse selection leaves out, checked       *)
(* under SpecSelect                                                        *)

\* How many of the returned charts have type t
ReturnedOfType(t) == Cardinality({i \in 1..Len(selected) : selected[i].type = t})

\* C29: if chart selection returns fewer than max_charts charts, then every
\* candidate that was not returned belongs to a chart type of which two
\* charts were returned: no eligible candidate is left out while slots
\* remain.
C29_NoEligibleLeftOut ==
    (vpc = "returned" /\ Len(selected) < max_charts) =>
        \A c \in Range(scored_charts) :
            c \notin Range(selected) => ReturnedOfType(c.type) = 2

\* C29 witness: three distinct candidates of one type and room for three
\* charts; two were returned and the third was left out.
C29_Witness ==
    /\ vpc = "returned"
    /\ max_charts = 3
    /\ Len(scored_charts) = 3
    /\ Cardinality(Range(scored_charts)) = 3
    /\ \A i \in 1..3 : scored_charts[i].type = "bar"
    /\ Len(selected) = 2
    /\ scored_charts[3] \notin Range(selected)

----------------------------------------------------------------------------
(* Reply parsing alone: narrative_generator.py _parse_response over reply  *)
(* texts of up to MaxParseBlocks blocks, each a header line and a body,    *)
(* with or without a line before the first header.  The content lines of a *)
(* text differ in length, which tells them apart.                          *)

\* Most header-and-body blocks of the reply texts parsed
MaxParseBlocks == 4

\* The bodies of a block
ParseBodies ==
    { <<>>, <<TextLine(30)>>, <<TextLine(31), BlankLine, TextLine(32)>> }

\* What may stand before the first header
Preambles == { <<>>, <<TextLine(33)>> }

ParseTexts ==
    {p \o Flatten(b) :
        p \in Preambles,
        b \in SeqsUpTo([header : SectionNames, body : ParseBodies],
                       MaxParseBlocks)}

\* _parse_response returns the sections
ParseReturns ==
    /\ qpc = "called"
    /\ MissingSections(ParseSections(response_lines)) = {}
    /\ parsed_sections' = ParseSections(response_lines)
    /\ qpc' = "returned"
    /\ UNCHANGED <<response_lines, parse_error>>
    /\ UNCHANGED exceptParse

\* _parse_response raises ValueError("Missing section(s): ...")
ParseRaises ==
    /\ qpc = "called"
    /\ MissingSections(ParseSections(response_lines)) # {}
    /\ parse_error' = "missing_section"
    /\ qpc' = "raised"
    /\ UNCHANGED <<response_lines, parsed_sections>>
    /\ UNCHANGED exceptParse

InitParse ==
    /\ response_lines \in ParseTexts
    /\ parsed_sections = NoSections
    /\ parse_error = "None"
    /\ qpc = "called"
    /\ IdleSelect
    /\ IdleInsights
    /\ IdleNarrative
    /\ IdlePipeline
    /\ IdlePreprocess
    /\ IdleRuns
    /\ IdleDetect
    /\ IdleClean
    /\ IdleTrend
    /\ IdleCorr
    /\ IdleOutliers
    /\ IdleFreq
    /\ IdleConvert
    /\ IdleResponse
    /\ IdleFunnel
    /\ IdleWaterfall
    /\ IdleScore
    /\ IdleCombination

NextParse ==
    \/ ParseReturns
    \/ ParseRaises

SpecParse == InitParse /\ [][NextParse]_vars

\* The section named by the nearest header before line i, or "None"
RECURSIVE NearestHeader(_)
NearestHeader(i) ==
    IF i = 0 THEN "None"
    ELSE IF HeaderOf(response_lines[i]) # "None"
         THEN HeaderOf(response_lines[i])
    ELSE NearestHeader(i - 1)

\* C30: every non-blank line that is not a section header and comes after
\* a header ends up in the returned text of the section named by the
\* nearest preceding header; content collected for a section is never
\* replaced or discarded by later lines.
C30_ContentKept ==
    qpc = "returned" =>
        \A i \in 1..Len(response_lines) :
            (/\ response_lines[i].len > 0
             /\ HeaderOf(response_lines[i]) = "None"
             /\ NearestHeader(i) # "None")
                => response_lines[i] \in Range(parsed_sections[NearestHeader(i)])

====
